---- MODULE Spec2Model ----
(***************************************************************************)
(* Model of the SEO learning-to-rank engine of LightDom:                   *)
(*   src/src/seo/ml/FeatureScoringSystem.py  (quality gate)                *)
(*   src/src/seo/ml/RankingPredictor.py      (batch ranking trainer)       *)
(*   src/src/seo/ml/NeuralNetworkRealTime.py (real-time neural ranker)     *)
(*   src/src/seo/ml/FeatureEngineering.py    (feature engineering)         *)
(*                                                                         *)
(* Python floats are modelled as fixed-point integers in units of 1/Scale  *)
(* (a score of 0.85 is 850); a float division a / b is                     *)
(* (a * Scale) \div b.  A call that raises is recorded in the `raised`     *)
(* field of the call's result.                                             *)
(***************************************************************************)
EXTENDS Integers, Sequences, FiniteSets, TLC

VARIABLES
    gate,       \* last call of the quality gate: operation, arguments, result
    split,      \* last call of SEORankingPredictor.prepare_ranking_data
    metric,     \* last call of evaluate / _calculate_ndcg_at_k / _calculate_map
    trainer,    \* the fields of one SEORankingPredictor instance
    call,       \* last call of train / predict / load_model on that instance
    balance,    \* last call of handle_imbalanced_data
    ranker,     \* one RealTimeNeuralRanker instance, its callback and its checkpoint file
    session,    \* the call in progress on that ranker and the position of its loop
    engineer,   \* one SEOFeatureEngineer instance and its last call
    script,     \* one run of a command-line script: arguments, output, exit status
    criterion,  \* last call of LambdaRankLoss.forward: the batch and the loss
    consumer    \* the thread calling get_live_metrics on that ranker

vars == <<gate, split, metric, trainer, call, balance, ranker, session, engineer,
          script, criterion, consumer>>

\* ------------------------------------------------------------------ bounds

MaxValue == 9           \* feature values range over MinValue..MaxValue
MaxFeatures == 2        \* features in one record given to calculate_overall_quality

MaxRows == 4            \* rows of a data set given to prepare_ranking_data
MaxQueries == 3         \* query ids are 1..MaxQueries

MaxLabel == 2           \* relevance labels of metric inputs are 0..MaxLabel
MaxMapRows == 4         \* rows of the data given to _calculate_map
MaxEvalRows == 3        \* rows of the data given to evaluate
MaxGroups == 2          \* entries of the group-size array given to evaluate
MaxTrainRows == 2       \* rows of the data set given to train

MinValue == 0 - 1

\* ----------------------------------------------------------------- helpers

Scale == 1000

None == "None"

Max(a, b) == IF a >= b THEN a ELSE b
Min(a, b) == IF a <= b THEN a ELSE b

\* floor of a / b for b # 0 (TLC's \div wants a positive divisor)
FloorDiv(a, b) == IF b > 0 THEN a \div b ELSE (0 - a) \div (0 - b)

RECURSIVE SumSeq(_)
SumSeq(s) == IF s = <<>> THEN 0 ELSE Head(s) + SumSeq(Tail(s))

RECURSIVE SumOver(_, _)
SumOver(S, f) ==
    IF S = {} THEN 0
    ELSE LET x == CHOOSE y \in S : TRUE IN f[x] + SumOver(S \ {x}, f)

Range(s) == {s[i] : i \in DOMAIN s}

\* np.mean of a non-empty list of fixed-point numbers
Mean(s) == FloorDiv(SumSeq(s), Len(s))

\* ============================================================ Quality Gate

\* The rows of the threshold table that are modelled (integer bounds); weight
\* is in tenths (1.8 is 18).
get_all_thresholds ==
    [ h1_count |->
        [category |-> "on_page", min_good |-> 1, max_good |-> 1,
         min_excellent |-> 1, max_excellent |-> 1, weight |-> 18, inverse |-> FALSE],
      h2_count |->
        [category |-> "on_page", min_good |-> 2, max_good |-> 8,
         min_excellent |-> 3, max_excellent |-> 6, weight |-> 12, inverse |-> FALSE],
      h3_count |->
        [category |-> "on_page", min_good |-> 0, max_good |-> 15,
         min_excellent |-> 3, max_excellent |-> 10, weight |-> 10, inverse |-> FALSE],
      url_depth |->
        [category |-> "on_page", min_good |-> 1, max_good |-> 3,
         min_excellent |-> 1, max_excellent |-> 2, weight |-> 11, inverse |-> TRUE],
      crawl_errors_count |->
        [category |-> "technical", min_good |-> 0, max_good |-> 5,
         min_excellent |-> 0, max_excellent |-> 0, weight |-> 15, inverse |-> TRUE],
      https_enabled |->
        [category |-> "technical", min_good |-> 1, max_good |-> 1,
         min_excellent |-> 1, max_excellent |-> 1, weight |-> 18, inverse |-> FALSE] ]

\* a name the table does not hold
UnknownFeature == "not_a_feature"

FeatureNames == DOMAIN get_all_thresholds \cup {UnknownFeature}

Values == MinValue..MaxValue

Scored(q, s) == [quality |-> q, score |-> s, raised |-> None]
DivisionByZero == [quality |-> None, score |-> 0, raised |-> "ZeroDivisionError"]

\* num / den as a float, or the ZeroDivisionError of an int division by 0
Quotient(num, den) == FloorDiv(num * Scale, den)

\* evaluate_feature with the excellent band open at min_excellent
evaluate_feature_open(feature_name, value, thresholds) ==
    IF feature_name \notin DOMAIN thresholds THEN Scored("fair", 500)
    ELSE
    LET config == thresholds[feature_name]
        inverse == config.inverse
        min_good == config.min_good
        max_good == config.max_good
        min_excellent == config.min_excellent
        max_excellent == config.max_excellent
        Ratio(num, den) == IF den = 0 THEN 0 ELSE Quotient(num, den)
    IN  IF inverse THEN
            IF value < min_excellent THEN Scored("excellent", Scale)
            ELSE IF value <= max_excellent THEN
                Scored("excellent",
                       850 + (150 * (Scale - Ratio(value - min_excellent,
                                                      max_excellent - min_excellent))) \div Scale)
            ELSE IF value <= min_good THEN
                Scored("good",
                       700 + (150 * (Scale - Ratio(value - max_excellent,
                                                      min_good - max_excellent))) \div Scale)
            ELSE IF value <= max_good THEN
                Scored("fair",
                       500 + (200 * (Scale - Ratio(value - min_good,
                                                      max_good - min_good))) \div Scale)
            ELSE IF max_good = 0 THEN DivisionByZero
            ELSE Scored("poor",
                        Max(100, 500 - (400 * Ratio(value - max_good, max_good)) \div Scale))
        ELSE
            IF value > min_excellent /\ value <= max_excellent THEN
                Scored("excellent", Scale)
            ELSE IF value >= min_good /\ value <= max_good THEN
                IF value < min_excellent THEN
                    Scored("good",
                           700 + (150 * Ratio(value - min_good,
                                                 min_excellent - min_good)) \div Scale)
                ELSE
                    Scored("good",
                           850 + (150 * (Scale - Ratio(value - max_excellent,
                                                          max_good - max_excellent))) \div Scale)
            \* min_good * 0.5 <= value < min_good
            ELSE IF 2 * value >= min_good /\ value < min_good THEN
                Scored("fair",
                       500 + (200 * Ratio(2 * value - min_good, min_good)) \div Scale)
            ELSE
                Scored("poor",
                       Max(100, IF min_good > 0
                                THEN (500 * Ratio(2 * value, min_good)) \div Scale
                                ELSE 100))

evaluate_feature(feature_name, value, thresholds) ==
    IF feature_name \notin DOMAIN thresholds THEN Scored("fair", 500)
    ELSE
    LET config == thresholds[feature_name]
        inverse == config.inverse
        min_good == config.min_good
        max_good == config.max_good
        min_excellent == config.min_excellent
        max_excellent == config.max_excellent
    IN  IF inverse THEN
            IF value <= min_excellent THEN Scored("excellent", Scale)
            ELSE IF value <= max_excellent THEN
                Scored("excellent",
                       850 + (150 * (Scale - Quotient(value - min_excellent,
                                                      max_excellent - min_excellent))) \div Scale)
            ELSE IF value <= min_good THEN
                Scored("good",
                       700 + (150 * (Scale - Quotient(value - max_excellent,
                                                      min_good - max_excellent))) \div Scale)
            ELSE IF value <= max_good THEN
                Scored("fair",
                       500 + (200 * (Scale - Quotient(value - min_good,
                                                      max_good - min_good))) \div Scale)
            ELSE IF max_good = 0 THEN DivisionByZero
            ELSE Scored("poor",
                        Max(100, 500 - (400 * Quotient(value - max_good, max_good)) \div Scale))
        ELSE
            IF value >= min_excellent /\ value <= max_excellent THEN
                Scored("excellent", Scale)
            ELSE IF value >= min_good /\ value <= max_good THEN
                IF value < min_excellent THEN
                    Scored("good",
                           700 + (150 * Quotient(value - min_good,
                                                 min_excellent - min_good)) \div Scale)
                ELSE
                    Scored("good",
                           850 + (150 * (Scale - Quotient(value - max_excellent,
                                                          max_good - max_excellent))) \div Scale)
            \* min_good * 0.5 <= value < min_good
            ELSE IF 2 * value >= min_good /\ value < min_good THEN
                Scored("fair",
                       500 + (200 * Quotient(2 * value - min_good, min_good)) \div Scale)
            ELSE
                Scored("poor",
                       Max(100, IF min_good > 0
                                THEN (500 * Quotient(2 * value, min_good)) \div Scale
                                ELSE 100))

\* the overall tier with the bucket bounds excluded
OverallQualityAbove(overall_score) ==
    IF overall_score > 80 * Scale THEN "excellent"
    ELSE IF overall_score > 70 * Scale THEN "good"
    ELSE IF overall_score > 50 * Scale THEN "fair"
    ELSE "poor"

\* the overall tier of an overall score (in 1/Scale points)
OverallQuality(overall_score) ==
    IF overall_score >= 80 * Scale THEN "excellent"
    ELSE IF overall_score >= 70 * Scale THEN "good"
    ELSE IF overall_score >= 50 * Scale THEN "fair"
    ELSE "poor"

\* calculate_overall_quality without the test `feature_name in thresholds`
calculate_overall_quality_all(features, thresholds) ==
    LET known == DOMAIN features
        Weight(f) == IF f \in DOMAIN thresholds THEN thresholds[f].weight ELSE 10
        Category(f) == IF f \in DOMAIN thresholds THEN thresholds[f].category ELSE "unknown"
        feature_scores == [f \in known |-> evaluate_feature(f, features[f], thresholds)]
        failed == {f \in known : feature_scores[f].raised # None}
        weighted_sum == SumOver(known, [f \in known |->
                                   feature_scores[f].score * Weight(f)])
        total_weight == SumOver(known, [f \in known |-> Weight(f)])
        overall_score == IF total_weight > 0
                         THEN FloorDiv(weighted_sum * 100, total_weight)
                         ELSE 0
        categories == {Category(f) : f \in known}
        InCategory(c) == {f \in known : Category(f) = c}
        category_scores ==
            [c \in categories |->
                100 * FloorDiv(SumOver(InCategory(c),
                                       [f \in InCategory(c) |-> feature_scores[f].score]),
                               Cardinality(InCategory(c)))]
    IN  IF failed # {}
        THEN [raised |-> "ZeroDivisionError", overall_quality |-> None, overall_score |-> 0,
              feature_scores |-> <<>>, category_scores |-> <<>>,
              good_features |-> 0, poor_features |-> 0, total_features |-> 0]
        ELSE [raised |-> None,
              overall_quality |-> OverallQuality(overall_score),
              overall_score |-> overall_score,
              feature_scores |-> feature_scores,
              category_scores |-> category_scores,
              good_features |-> Cardinality({f \in known :
                                   feature_scores[f].quality \in {"excellent", "good"}}),
              poor_features |-> Cardinality({f \in known :
                                   feature_scores[f].quality = "poor"}),
              total_features |-> Cardinality(known)]

calculate_overall_quality(features, thresholds) ==
    LET known == DOMAIN features \cap DOMAIN thresholds
        feature_scores == [f \in known |-> evaluate_feature(f, features[f], thresholds)]
        failed == {f \in known : feature_scores[f].raised # None}
        weighted_sum == SumOver(known, [f \in known |->
                                   feature_scores[f].score * thresholds[f].weight])
        total_weight == SumOver(known, [f \in known |-> thresholds[f].weight])
        overall_score == IF total_weight > 0
                         THEN FloorDiv(weighted_sum * 100, total_weight)
                         ELSE 0
        categories == {thresholds[f].category : f \in known}
        InCategory(c) == {f \in known : thresholds[f].category = c}
        category_scores ==
            [c \in categories |->
                100 * FloorDiv(SumOver(InCategory(c),
                                       [f \in InCategory(c) |-> feature_scores[f].score]),
                               Cardinality(InCategory(c)))]
    IN  IF failed # {}
        THEN [raised |-> "ZeroDivisionError", overall_quality |-> None, overall_score |-> 0,
              feature_scores |-> <<>>, category_scores |-> <<>>,
              good_features |-> 0, poor_features |-> 0, total_features |-> 0]
        ELSE [raised |-> None,
              overall_quality |-> OverallQuality(overall_score),
              overall_score |-> overall_score,
              feature_scores |-> feature_scores,
              category_scores |-> category_scores,
              good_features |-> Cardinality({f \in known :
                                   feature_scores[f].quality \in {"excellent", "good"}}),
              poor_features |-> Cardinality({f \in known :
                                   feature_scores[f].quality = "poor"}),
              total_features |-> Cardinality(known)]

\* the feature records handed to calculate_overall_quality
FeatureRecords(max_features) ==
    UNION {[S -> Values] : S \in {T \in SUBSET FeatureNames : Cardinality(T) <= max_features}}

NoScore == [quality |-> None, score |-> 0, raised |-> None]
NoReport ==
    [raised |-> None, overall_quality |-> None, overall_score |-> 0,
     feature_scores |-> <<>>, category_scores |-> <<>>,
     good_features |-> 0, poor_features |-> 0, total_features |-> 0]

GateIdle ==
    [op |-> "idle", done |-> FALSE, feature_name |-> None, value |-> 0,
     features |-> <<>>, scored |-> NoScore, report |-> NoReport]

\* the calls of the quality gate that are checked, before they run
GateCalls(max_features) ==
    {[GateIdle EXCEPT !.op = "evaluate_feature", !.feature_name = n, !.value = v] :
        n \in FeatureNames, v \in Values}
    \cup {[GateIdle EXCEPT !.op = "calculate_overall_quality", !.features = f] :
        f \in FeatureRecords(max_features)}

EvaluateFeature ==
    /\ gate.op = "evaluate_feature" /\ ~gate.done
    /\ gate' = [gate EXCEPT !.done = TRUE,
                   !.scored = evaluate_feature(gate.feature_name, gate.value,
                                               get_all_thresholds)]
    /\ UNCHANGED <<split, metric, trainer, call, balance, ranker, session, engineer, script, criterion, consumer>>

CalculateOverallQuality ==
    /\ gate.op = "calculate_overall_quality" /\ ~gate.done
    /\ gate' = [gate EXCEPT !.done = TRUE,
                   !.report = calculate_overall_quality(gate.features, get_all_thresholds)]
    /\ UNCHANGED <<split, metric, trainer, call, balance, ranker, session, engineer, script, criterion, consumer>>

NextQuality == EvaluateFeature \/ CalculateOverallQuality

\* =================================================== prepare_ranking_data

\* the elements of a finite set of integers in ascending order (np.unique, sort_index)
RECURSIVE SortedSeq(_)
SortedSeq(S) ==
    IF S = {} THEN <<>>
    ELSE LET m == CHOOSE x \in S : \A y \in S : x <= y
         IN  <<m>> \o SortedSeq(S \ {m})

\* s[idx[1]], s[idx[2]], ...  (iloc with a list of positions)
Take(s, idx) == [i \in 1..Len(idx) |-> s[idx[i]]]

\* the positions of s whose value is in S, in order (a boolean mask)
Positions(s, S) ==
    LET Keep(i) == s[i] \in S
    IN  SelectSeq([i \in 1..Len(s) |-> i], Keep)

\* Series.argsort(): numpy's default sort is not stable, so any order of the
\* positions that puts the values in ascending order is a possible result.
RECURSIVE AscendingOrders(_, _)
AscendingOrders(s, S) ==
    IF S = {} THEN {<<>>}
    ELSE LET least == {i \in S : \A j \in S : s[i] <= s[j]}
         IN  UNION {{<<i>> \o rest : rest \in AscendingOrders(s, S \ {i})} : i \in least}

Argsort(s) == AscendingOrders(s, DOMAIN s)

\* int(n_queries * test_size), test_size in percent
NTestQueries(n_queries, test_size) == (n_queries * test_size) \div 100

\* np.random.choice(n_queries, n_test_queries, replace=False)
RandomChoice(n_queries, n_test_queries) ==
    {c \in SUBSET (1..n_queries) : Cardinality(c) = n_test_queries}

Count(s, v) == Cardinality({i \in DOMAIN s : s[i] = v})

\* query_ids.isin(test_queries)
TestMaskByRow(query_ids, test_query_indices, unique_queries) ==
    Positions([i \in 1..Len(query_ids) |-> i], test_query_indices)

TestMask(query_ids, test_query_indices, unique_queries) ==
    LET test_queries == {unique_queries[i] : i \in test_query_indices}
    IN  Positions(query_ids, test_queries)

\* pd.Series(qid).value_counts() without sort_index(): most frequent first
RECURSIVE ByCount(_, _)
ByCount(S, qid) ==
    IF S = {} THEN <<>>
    ELSE LET m == CHOOSE x \in S : \A y \in S :
                     \/ Count(qid, x) > Count(qid, y)
                     \/ Count(qid, x) = Count(qid, y) /\ x <= y
         IN  <<Count(qid, m)>> \o ByCount(S \ {m}, qid)

GroupSizesByCount(qid) == ByCount(Range(qid), qid)

\* pd.Series(qid).value_counts().sort_index().values
GroupSizes(qid) ==
    LET unique == SortedSeq(Range(qid))
    IN  [i \in 1..Len(unique) |-> Count(qid, unique[i])]

\* prepare_ranking_data; sorted_indices and test_query_indices are the results
\* of argsort and of the seeded random choice.  A feature row is its position
\* in the caller's frame.
prepare_ranking_data(features, labels, query_ids, sorted_indices, test_query_indices) ==
    LET features_s == Take(features, sorted_indices)
        labels_s == Take(labels, sorted_indices)
        query_ids_s == Take(query_ids, sorted_indices)
        unique_queries == SortedSeq(Range(query_ids_s))
        test_rows == TestMask(query_ids_s, test_query_indices, unique_queries)
        \* train_mask = ~test_mask
        train_rows == Positions([i \in 1..Len(query_ids_s) |-> i],
                                (1..Len(query_ids_s)) \ Range(test_rows))
    IN  [X_train |-> Take(features_s, train_rows),
         X_test |-> Take(features_s, test_rows),
         y_train |-> Take(labels_s, train_rows),
         y_test |-> Take(labels_s, test_rows),
         train_groups |-> GroupSizes(Take(query_ids_s, train_rows)),
         test_groups |-> GroupSizes(Take(query_ids_s, test_rows))]

NoSplit ==
    [X_train |-> <<>>, X_test |-> <<>>, y_train |-> <<>>, y_test |-> <<>>,
     train_groups |-> <<>>, test_groups |-> <<>>]

SplitIdle ==
    [op |-> "idle", done |-> FALSE, features |-> <<>>, labels |-> <<>>,
     query_ids |-> <<>>, test_size |-> 0, result |-> NoSplit]

\* test_size in percent: the default 0.2, a half, and everything
TestSizes == {20, 50, 100}

\* relevance labels are grades 0..Grades-1
Grades == 5

\* prepare_ranking_data only carries the labels along: row i of an input has
\* grade (i - 1) % Grades, so rows next to each other differ in their label
SplitLabels(n) == [i \in 1..n |-> (i - 1) % Grades]

\* the names of the columns of the feature frame of a split input
SplitColumns == {"domain_authority", "engagement_rate"}

SplitCalls(max_rows) ==
    UNION {
        {[SplitIdle EXCEPT !.op = "prepare_ranking_data",
                           !.features = [i \in 1..n |-> i],
                           !.labels = SplitLabels(n),
                           !.query_ids = q, !.test_size = t] :
            q \in [1..n -> 1..MaxQueries], t \in TestSizes}
        : n \in 1..max_rows}

PrepareRankingData ==
    /\ split.op = "prepare_ranking_data" /\ ~split.done
    /\ \E sorted_indices \in Argsort(split.query_ids) :
       \E test_query_indices \in
              RandomChoice(Cardinality(Range(split.query_ids)),
                           NTestQueries(Cardinality(Range(split.query_ids)),
                                        split.test_size)) :
          split' = [split EXCEPT !.done = TRUE,
                       !.result = prepare_ranking_data(
                                      split.features, split.labels, split.query_ids,
                                      sorted_indices, test_query_indices)]
    /\ trainer' = [trainer EXCEPT !.feature_names = SplitColumns]
    /\ UNCHANGED <<gate, metric, call, balance, ranker, session, engineer, script, criterion, consumer>>

NextSplit == PrepareRankingData

\* ========================================================= ranking metrics

Reverse(s) == [i \in 1..Len(s) |-> s[Len(s) + 1 - i]]

\* np.argsort(y_pred)[::-1]: the positions by descending score; rows of equal
\* score come in whatever order the sort leaves them
DescendingOrders(y_pred) == {Reverse(p) : p \in Argsort(y_pred)}

\* np.sort(y_true)[::-1]
RECURSIVE SortDescending(_)
SortDescending(s) ==
    IF s = <<>> THEN <<>>
    ELSE LET m == CHOOSE i \in DOMAIN s : \A j \in DOMAIN s : s[i] >= s[j]
         IN  <<s[m]>> \o SortDescending([i \in 1..Len(s) - 1 |->
                                             IF i < m THEN s[i] ELSE s[i + 1]])

\* s[start:end] of Python (0-based, end excluded, cut at the end of s)
Slice(s, start, end) == SubSeq(s, start + 1, Min(end, Len(s)))

\* 1 / np.log2(i + 2) for the 0-based rank i = 0..9, in 1/Scale
InverseLog2 == <<1000, 631, 500, 431, 387, 356, 333, 315, 301, 289>>

\* the gain with the rank discount left out
UndiscountedGain(relevance, i) == (2 ^ relevance - 1) * Scale

\* (2**relevance - 1) / np.log2(i + 2)
DiscountedGain(relevance, i) == (2 ^ relevance - 1) * InverseLog2[i + 1]

\* the DCG of the relevances in the order given
RECURSIVE Dcg(_, _)
Dcg(relevances, i) ==
    IF i >= Len(relevances) THEN 0
    ELSE DiscountedGain(relevances[i + 1], i) + Dcg(relevances, i + 1)

\* ideal_relevances when the labels are left unsorted
IdealRelevancesUnsorted(y_true, k) == Slice(y_true, 0, k)

\* ideal_relevances = np.sort(y_true)[::-1][:k]
IdealRelevances(y_true, k) == Slice(SortDescending(y_true), 0, k)

\* _calculate_ndcg_at_k; sorted_indices is the result of np.argsort(y_pred)[::-1]
calculate_ndcg_at_k(y_true, sorted_indices, k) ==
    LET top_k_indices == Slice(sorted_indices, 0, Min(k, Len(sorted_indices)))
        dcg == Dcg(Take(y_true, top_k_indices), 0)
        idcg == Dcg(IdealRelevances(y_true, k), 0)
    IN  IF idcg = 0 THEN 0 ELSE Quotient(dcg, idcg)

\* for k in [3, 5, 10, 20]
EvalKs == {3, 5, 10, 20}

\* a document is relevant for MAP when its label is at least this
RelevantLabel == 2

\* precisions of one group: relevant_count / (i + 1) at each relevant rank
RECURSIVE Precisions(_, _, _)
Precisions(sorted_true, i, relevant_count) ==
    IF i >= Len(sorted_true) THEN <<>>
    ELSE IF sorted_true[i + 1] = 1
         THEN <<Quotient(relevant_count + 1, i + 1)>>
                  \o Precisions(sorted_true, i + 1, relevant_count + 1)
         ELSE Precisions(sorted_true, i + 1, relevant_count)

\* start_idx of the next group when a group is skipped, left where it was
AfterSkippedStale(start_idx, end_idx) == start_idx

\* start_idx of the next group when a group is skipped
AfterSkipped(start_idx, end_idx) == end_idx

\* the loop of _calculate_map from group g on: the ap_scores it appends
RECURSIVE ApScores(_, _, _, _, _)
ApScores(y_true, y_pred, groups, orders, state) ==
    IF state.g > Len(groups) THEN <<>>
    ELSE
    LET start_idx == state.start_idx
        end_idx == start_idx + groups[state.g]
        group_true == Slice(y_true, start_idx, end_idx)
        binary_true == [i \in 1..Len(group_true) |->
                           IF group_true[i] >= RelevantLabel THEN 1 ELSE 0]
    IN  IF SumSeq(binary_true) = 0
        THEN ApScores(y_true, y_pred, groups, orders,
                      [g |-> state.g + 1, start_idx |-> AfterSkipped(start_idx, end_idx)])
        ELSE LET sorted_true == Take(binary_true, orders[state.g])
                 precisions == Precisions(sorted_true, 0, 0)
                 ap == IF precisions # <<>> THEN Mean(precisions) ELSE 0
             IN  <<ap>> \o ApScores(y_true, y_pred, groups, orders,
                                    [g |-> state.g + 1, start_idx |-> end_idx])

\* _calculate_map; orders[g] is the result of np.argsort(group_pred)[::-1] for group g
calculate_map(y_true, y_pred, groups, orders) ==
    LET ap_scores == ApScores(y_true, y_pred, groups, orders, [g |-> 1, start_idx |-> 0])
    IN  IF ap_scores # <<>> THEN Mean(ap_scores) ELSE 0

\* the rows of group g as evaluate and _calculate_map slice them
RECURSIVE GroupStart(_, _)
GroupStart(groups, g) == IF g = 1 THEN 0 ELSE GroupStart(groups, g - 1) + groups[g - 1]

GroupSlice(s, groups, g) ==
    Slice(s, GroupStart(groups, g), GroupStart(groups, g) + groups[g])

NaN == "nan"

\* np.mean, which is nan for an empty list
MeanOrNaN(s) == IF s = <<>> THEN NaN ELSE Mean(s)

\* evaluate, given y_pred = self.model.predict(X_test)
evaluate(y_test, y_pred, test_groups, orders) ==
    [raised |-> None,
     ndcg |-> [k \in EvalKs |->
                 MeanOrNaN([g \in 1..Len(test_groups) |->
                     calculate_ndcg_at_k(GroupSlice(y_test, test_groups, g),
                                         orders[g], k)])],
     map |-> calculate_map(y_test, y_pred, test_groups, orders)]

\* predicted scores: low, high
Scores == {0, 1}

Labels == 0..MaxLabel

MetricIdle ==
    [op |-> "idle", done |-> FALSE, y_true |-> <<>>, y_pred |-> <<>>, groups |-> <<>>,
     orders |-> <<>>, ndcg |-> <<>>, map |-> 0, raised |-> None]

\* the smallest cutoff of EvalKs
SmallestK == 3

\* a query group has at least one row; one row more than the smallest cutoff
\* is the least size at which the top k leave a row out
MaxGroupSize == SmallestK + 1

NdcgCalls(max_rows) ==
    UNION {
        {[MetricIdle EXCEPT !.op = "_calculate_ndcg_at_k", !.y_true = t, !.y_pred = p] :
            t \in [1..n -> Labels], p \in [1..n -> Scores]}
        : n \in 1..max_rows}

\* the group-size arrays that add up to n rows
RECURSIVE Compositions(_)
Compositions(n) ==
    IF n = 0 THEN {<<>>}
    ELSE UNION {{<<first>> \o rest : rest \in Compositions(n - first)} : first \in 1..n}

\* labels on either side of the relevance threshold of MAP
MapLabels == {0, RelevantLabel}

MapCalls(max_rows) ==
    UNION {
        {[MetricIdle EXCEPT !.op = "_calculate_map",
                            !.y_true = t, !.y_pred = p, !.groups = g] :
            t \in [1..n -> MapLabels], p \in [1..n -> Scores], g \in Compositions(n)}
        : n \in 1..max_rows}

\* group-size arrays: up to MaxGroups groups of 1..MaxEvalRows rows, whether or
\* not they add up to the number of rows
GroupArrays(max_rows) == UNION {[1..m -> 1..max_rows] : m \in 0..MaxGroups}

EvaluateCalls(max_rows) ==
    UNION {
        {[MetricIdle EXCEPT !.op = "evaluate", !.y_true = t, !.y_pred = p, !.groups = g] :
            t \in [1..n -> Labels], p \in [1..n -> Scores], g \in GroupArrays(max_rows)}
        : n \in 1..max_rows}

\* the results of argsort for the groups from g on, one for every group; a
\* group _calculate_map skips has none
RECURSIVE OrdersFrom(_, _, _, _, _)
OrdersFrom(y_true, y_pred, groups, all, g) ==
    IF g > Len(groups) THEN {<<>>}
    ELSE LET group_true == GroupSlice(y_true, groups, g)
             sorted == IF all \/ \E i \in DOMAIN group_true : group_true[i] >= RelevantLabel
                       THEN DescendingOrders(GroupSlice(y_pred, groups, g))
                       ELSE {<<>>}
         IN  {<<o>> \o rest : o \in sorted,
                              rest \in OrdersFrom(y_true, y_pred, groups, all, g + 1)}

OrdersOf(y_true, y_pred, groups, all) == OrdersFrom(y_true, y_pred, groups, all, 1)

CalculateNdcgAtK ==
    /\ metric.op = "_calculate_ndcg_at_k" /\ ~metric.done
    /\ \E sorted_indices \in DescendingOrders(metric.y_pred) :
          metric' = [metric EXCEPT !.done = TRUE,
                        !.orders = <<sorted_indices>>,
                        !.ndcg = [k \in EvalKs |->
                                    calculate_ndcg_at_k(metric.y_true, sorted_indices, k)]]
    /\ UNCHANGED <<gate, split, trainer, call, balance, ranker, session, engineer, script, criterion, consumer>>

CalculateMap ==
    /\ metric.op = "_calculate_map" /\ ~metric.done
    /\ \E orders \in OrdersOf(metric.y_true, metric.y_pred, metric.groups, FALSE) :
          metric' = [metric EXCEPT !.done = TRUE,
                        !.orders = orders,
                        !.map = calculate_map(metric.y_true, metric.y_pred,
                                              metric.groups, orders)]
    /\ UNCHANGED <<gate, split, trainer, call, balance, ranker, session, engineer, script, criterion, consumer>>

Evaluate ==
    /\ metric.op = "evaluate" /\ ~metric.done
    /\ \/ /\ trainer.model = None
          /\ metric' = [metric EXCEPT !.done = TRUE, !.raised = "AttributeError"]
       \/ /\ trainer.model # None
          /\ \E orders \in OrdersOf(metric.y_true, metric.y_pred, metric.groups, TRUE) :
                LET r == evaluate(metric.y_true, metric.y_pred, metric.groups, orders)
                IN  metric' = [metric EXCEPT !.done = TRUE, !.orders = orders,
                                  !.ndcg = r.ndcg, !.map = r.map, !.raised = r.raised]
    /\ UNCHANGED <<gate, split, trainer, call, balance, ranker, session, engineer, script, criterion, consumer>>

NextNdcg == CalculateNdcgAtK
NextMap == CalculateMap
NextEvaluate == Evaluate

\* ===================================================== SEORankingPredictor

\* the backends train dispatches on, and a model_type that is neither
ModelTypes == {"xgboost", "lightgbm", "catboost"}

\* feature_names before prepare_ranking_data has run: None, written as a set
\* so that it compares with the sets of column names that replace it
NoFeatureNames == {None}

\* SEORankingPredictor.__init__
TrainerNew ==
    [model_type |-> "xgboost", model |-> None, scaler |-> "unfitted",
     feature_names |-> NoFeatureNames, feature_importance |-> None]

Both(columns, a, b) == a \in columns /\ b \in columns

\* create_interaction_features: the columns of df after the call (df itself is
\* changed, not a copy)
create_interaction_features(columns) ==
    columns
    \cup (IF Both(columns, "content_quality_score", "total_backlinks")
          THEN {"content_backlink_interaction"} ELSE {})
    \cup (IF Both(columns, "engagement_rate", "average_position")
          THEN {"engagement_position_interaction"} ELSE {})
    \cup (IF Both(columns, "mobile_traffic_ratio", "mobile_responsive")
          THEN {"mobile_optimization_impact"} ELSE {})
    \cup (IF {"https_enabled", "mobile_responsive", "cwv_pass_rate"} \subseteq columns
          THEN {"technical_health_score"} ELSE {})
    \cup (IF {"domain_authority", "domain_rating", "trust_flow"} \subseteq columns
          THEN {"domain_authority_zscore", "domain_rating_zscore", "trust_flow_zscore",
                "composite_authority_score"}
          ELSE {})

TemporalColumns(metric_name) ==
    {metric_name \o "_7d_ma", metric_name \o "_30d_ma",
     metric_name \o "_lag7", metric_name \o "_trend"}

\* create_temporal_features: the columns of the frame it returns
create_temporal_features(columns) ==
    IF Both(columns, "url", "date")
    THEN columns \cup UNION {TemporalColumns(m) :
                                m \in {"traffic", "engagement_rate", "clicks"} \cap columns}
    ELSE columns

NoResult == [keys |-> {}, metrics |-> None]

CallIdle ==
    [op |-> "idle", raised |-> None, result |-> NoResult, log_mlflow |-> FALSE,
     library |-> "none", columns_in |-> {}, columns_out |-> {}]

Raised(self, error, frame) == [self |-> self, raised |-> error, result |-> NoResult, frame |-> frame]

\* the library call of train that raises, if any: mlflow.start_run,
\* scaler.fit_transform / transform, or the backend's fit
LibraryFailures == {"none", "mlflow", "scaler", "fit"}

\* train: sp is the result of prepare_ranking_data on the engineered frame,
\* library names the library call that raises, y_pred and orders are the
\* predictions and the argsort results of evaluate
train(self, columns, sp, library, y_pred, orders, log_mlflow) ==
    LET frame == create_interaction_features(columns)
        engineered == create_temporal_features(frame)
        prepared == [self EXCEPT !.feature_names = engineered]
        scaled == [prepared EXCEPT !.scaler = "fitted"]
        fitted == [scaled EXCEPT !.model = self.model_type,
                                 !.feature_importance = "feature_importances_"]
        metrics == evaluate(sp.y_test, y_pred, sp.test_groups, orders)
    IN  IF log_mlflow /\ library = "mlflow" THEN Raised(self, "MlflowException", columns)
        ELSE IF library = "scaler" THEN Raised(prepared, "ValueError", frame)
        ELSE IF self.model_type \notin {"xgboost", "lightgbm"}
        THEN Raised(scaled, "ValueError", frame)
        ELSE IF library = "fit" THEN Raised(scaled, "ValueError", frame)
        ELSE IF ~log_mlflow
        \* feature_importance_df is assigned only under `if log_mlflow`
        THEN Raised(fitted, "UnboundLocalError", frame)
        ELSE [self |-> fitted, raised |-> None,
              result |-> [keys |-> {"model", "scaler", "metrics", "feature_importance"},
                          metrics |-> metrics],
              frame |-> frame]

\* predict with the model checked only after the feature engineering
predict_unchecked(self, columns) ==
    LET frame == create_interaction_features(columns)
        engineered == create_temporal_features(frame)
    IN  IF self.model = None THEN Raised(self, "ValueError", frame)
        ELSE IF self.feature_names = NoFeatureNames \/ ~(self.feature_names \subseteq engineered)
        THEN Raised(self, "KeyError", frame)
        ELSE [self |-> self, raised |-> None,
              result |-> [keys |-> {"scores"}, metrics |-> None],
              frame |-> frame]

\* predict
predict(self, columns) ==
    IF self.model = None THEN Raised(self, "ValueError", columns)
    ELSE predict_unchecked(self, columns)

\* what joblib.load returns: the model_data of a trained and of an untrained predictor
SavedModels ==
    {[model |-> t, scaler |-> "fitted",
      feature_names |-> {"content_quality_score", "total_backlinks"},
      feature_importance |-> "feature_importances_", model_type |-> t] :
         t \in {"xgboost", "lightgbm"}}
    \cup {[model |-> None, scaler |-> "unfitted", feature_names |-> NoFeatureNames,
           feature_importance |-> None, model_type |-> "xgboost"]}

\* load_model
load_model(self, model_data) ==
    [self EXCEPT !.model = model_data.model, !.scaler = model_data.scaler,
                 !.feature_names = model_data.feature_names,
                 !.feature_importance = model_data.feature_importance,
                 !.model_type = model_data.model_type]

\* the query ids of the data sets handed to train
TrainQueryIds == {1, 2}

\* the columns of the frames handed to train and predict
Frames == (SUBSET {"content_quality_score", "total_backlinks"}) \ {{}}

Train ==
    /\ call.op = "idle"
    /\ \E columns \in Frames, log_mlflow \in BOOLEAN, library \in LibraryFailures,
          n \in 1..MaxTrainRows, test_size \in TestSizes :
       \E query_ids \in [1..n -> TrainQueryIds] :
       \E sorted_indices \in Argsort(query_ids) :
       \E test_query_indices \in
              RandomChoice(Cardinality(Range(query_ids)),
                           NTestQueries(Cardinality(Range(query_ids)), test_size)) :
          LET sp == prepare_ranking_data([i \in 1..n |-> i], SplitLabels(n), query_ids,
                                         sorted_indices, test_query_indices)
          IN  \E y_pred \in [1..Len(sp.y_test) -> Scores] :
              \E orders \in OrdersOf(sp.y_test, y_pred, sp.test_groups, TRUE) :
                 LET r == train(trainer, columns, sp, library, y_pred, orders, log_mlflow)
                 IN  /\ trainer' = r.self
                     /\ call' = [op |-> "train", raised |-> r.raised, result |-> r.result,
                                 log_mlflow |-> log_mlflow, library |-> library,
                                 columns_in |-> columns, columns_out |-> r.frame]
    /\ UNCHANGED <<gate, split, metric, balance, ranker, session, engineer, script, criterion, consumer>>

Predict ==
    /\ call.op = "idle"
    /\ \E columns \in Frames :
          LET r == predict(trainer, columns)
          IN  /\ trainer' = r.self
              /\ call' = [op |-> "predict", raised |-> r.raised, result |-> r.result,
                          log_mlflow |-> FALSE, library |-> "none",
                          columns_in |-> columns, columns_out |-> r.frame]
    /\ UNCHANGED <<gate, split, metric, balance, ranker, session, engineer, script, criterion, consumer>>

LoadModel ==
    /\ call.op = "idle"
    /\ \E model_data \in SavedModels :
          /\ trainer' = load_model(trainer, model_data)
          /\ call' = [CallIdle EXCEPT !.op = "load_model"]
    /\ UNCHANGED <<gate, split, metric, balance, ranker, session, engineer, script, criterion, consumer>>

\* the call has returned or raised: the caller goes on to its next call
Return ==
    /\ call.op # "idle"
    /\ call' = CallIdle
    /\ UNCHANGED <<gate, split, metric, trainer, balance, ranker, session, engineer, script, criterion, consumer>>

NextTrainer == Train \/ Predict \/ LoadModel \/ Return

\* ================================================= handle_imbalanced_data

MaxBalanceRows == 3     \* rows of the data set given to handle_imbalanced_data

\* target_ratio in percent (0.2 is the default)
TargetRatios == {20, 100, 200}

\* the rows a boolean mask on the labels selects
HighRanking(labels) == {i \in DOMAIN labels : labels[i] >= RelevantLabel}

LowRanking(labels) == {i \in DOMAIN labels : labels[i] < RelevantLabel}

\* series[mask].index: the index labels of the selected rows
IndexOf(index, rows) == {index[i] : i \in rows}

\* int(n_high / target_ratio)
NLowTarget(n_high, target_ratio) == (n_high * 100) \div target_ratio

\* np.random.choice(low_indices, size=n_low_target, replace=False)
SampledLowIndices(low_indices, n_low_target) ==
    {c \in SUBSET low_indices : Cardinality(c) = n_low_target}

\* obj.loc[keep_indices]: the row that carries each requested index label, in
\* the order of the request
Loc(values, index, keep_indices) ==
    [j \in 1..Len(keep_indices) |->
        values[CHOOSE i \in DOMAIN index : index[i] = keep_indices[j]]]

Balanced(features, labels, query_ids, index) ==
    [features |-> features, labels |-> labels, query_ids |-> query_ids, index |-> index]

\* handle_imbalanced_data; index is the pandas index the three inputs share,
\* sampled_low_indices the draw of np.random.choice
handle_imbalanced_data(features, labels, query_ids, index, target_ratio, sampled_low_indices) ==
    LET n_high == Cardinality(HighRanking(labels))
        n_low == Cardinality(LowRanking(labels))
        n_low_target == NLowTarget(n_high, target_ratio)
        keep_indices ==
            SortedSeq(IndexOf(index, HighRanking(labels)) \cup sampled_low_indices)
    IN  IF n_low > n_low_target
        THEN Balanced(Loc(features, index, keep_indices), Loc(labels, index, keep_indices),
                      Loc(query_ids, index, keep_indices), keep_indices)
        ELSE Balanced(features, labels, query_ids, index)

BalanceIdle ==
    [op |-> "idle", done |-> FALSE, features |-> <<>>, labels |-> <<>>,
     query_ids |-> <<>>, index |-> <<>>, target_ratio |-> 20,
     result |-> Balanced(<<>>, <<>>, <<>>, <<>>)]

\* one low-relevance and one high-relevance label
BalanceLabels == {RelevantLabel - 1, RelevantLabel}

\* a pandas index without duplicates over n rows: the labels 0..n-1 in any order
\* (RangeIndex is the ascending one)
Indexes(n) == {ix \in [1..n -> 0..(n - 1)] : \A i, j \in 1..n : ix[i] = ix[j] => i = j}

\* the calls of handle_imbalanced_data; the feature of a row is its position
BalanceCalls(max_rows) ==
    UNION {{[BalanceIdle EXCEPT !.op = "handle_imbalanced_data",
                                !.features = [i \in 1..n |-> i],
                                !.labels = labels,
                                !.query_ids = [i \in 1..n |-> (i + 1) \div 2],
                                !.index = index,
                                !.target_ratio = target_ratio] :
               labels \in [1..n -> BalanceLabels], index \in Indexes(n),
               target_ratio \in TargetRatios} :
           n \in 1..max_rows}

HandleImbalancedData ==
    /\ balance.op = "handle_imbalanced_data"
    /\ ~balance.done
    /\ LET low_indices == IndexOf(balance.index, LowRanking(balance.labels))
           n_low_target == NLowTarget(Cardinality(HighRanking(balance.labels)),
                                      balance.target_ratio)
       IN  \E sampled_low_indices \in
                  IF Cardinality(low_indices) > n_low_target
                  THEN SampledLowIndices(low_indices, n_low_target)
                  ELSE {{}} :
              balance' = [balance EXCEPT
                            !.done = TRUE,
                            !.result = handle_imbalanced_data(
                                           balance.features, balance.labels,
                                           balance.query_ids, balance.index,
                                           balance.target_ratio, sampled_low_indices)]
    /\ UNCHANGED <<gate, split, metric, trainer, call, ranker, session, engineer, script, criterion, consumer>>

NextImbalance == HandleImbalancedData

\* ==================================================== RealTimeNeuralRanker
\* The numeric work of torch (forward and backward pass, Adam) is outside the
\* model: the parameters are a version number that every optimizer step
\* raises, the optimizer state is its step count, and a loss is a number that
\* the data decide.  MLflow is not modelled.  Each step of a training loop is
\* one action: one mini-batch, or the end of one epoch.

MaxEpochs == 4          \* epochs / n_epochs arguments are 0..MaxEpochs
MaxPatience == 2        \* early_stopping_patience is 0..MaxPatience
MaxBatches == 2         \* mini-batches of one data set are 0..MaxBatches

\* RealTimeTrainingCallback.__init__: log_interval
log_interval == 10

\* float('inf'): above every loss
Inf == 1000000

\* the values a training or validation loss takes
Losses == {1, 2}

NoCheckpoint ==
    [file |-> "missing", model_state_dict |-> 0,
     optimizer_state_dict |-> [steps |-> 0], history |-> <<>>]

\* RealTimeNeuralRanker.__init__ with RealTimeTrainingCallback.__init__ and
\* connect_websocket: ws is None without a url or when the connect fails.
\* subscriber counts the pushes the endpoint was sent and those that failed;
\* checkpoint is the file best_neural_model.pt
RankerNew(websocket_url, ws) ==
    [params |-> 0, optimizer |-> [steps |-> 0], history |-> <<>>,
     websocket_url |-> websocket_url, ws |-> ws, metric_queue |-> <<>>,
     subscriber |-> [attempts |-> 0, failures |-> 0],
     checkpoint |-> NoCheckpoint]

RankerIdle == RankerNew(None, None)

\* what a call finds: the parameters, the optimizer state and the length of
\* the metric queue
Before(self) ==
    [params |-> self.params, optimizer |-> self.optimizer,
     queued |-> Len(self.metric_queue)]

SessionIdle ==
    [op |-> "idle", pc |-> "idle", epochs |-> 0,
     early_stopping_patience |-> 0, n_batches |-> 0, has_val |-> FALSE,
     epoch |-> 0, batch_idx |-> 0, batch_count |-> 0,
     best_val_loss |-> Inf, patience_counter |-> 0,
     steps |-> 0, before |-> Before(RankerIdle), first_step_from |-> Before(RankerIdle),
     log |-> <<>>, raised |-> None,
     result |-> [best_val_loss |-> Inf, total_epochs |-> 0]]

Event(type, index) == [type |-> type, index |-> index]

Sent(self) == [self |-> self, raised |-> None]

\* send_metrics without the try / except around ws.send
send_metrics_unguarded(self, metrics, push_ok) ==
    LET queued == [self EXCEPT !.metric_queue = Append(@, metrics)]
        failed == self.ws = "closed" \/ ~push_ok
        pushed == [queued EXCEPT !.subscriber.attempts = @ + 1,
                                 !.subscriber.failures = @ + (IF failed THEN 1 ELSE 0)]
    IN  IF self.ws = None THEN Sent(queued)
        ELSE [self |-> pushed,
              raised |-> IF failed THEN "WebSocketException" ELSE None]

\* RealTimeTrainingCallback.send_metrics: push_ok says whether ws.send on an
\* open socket succeeds; on a closed socket it raises
send_metrics(self, metrics, push_ok) ==
    Sent(send_metrics_unguarded(self, metrics, push_ok).self)

\* on_epoch_end with no throttling
on_epoch_end_always(self, epoch, push_ok) ==
    send_metrics(self, Event("epoch_metrics", epoch), push_ok)

\* RealTimeTrainingCallback.on_epoch_end
on_epoch_end(self, epoch, push_ok) ==
    IF epoch % log_interval = 0 \/ epoch = 0
    THEN send_metrics(self, Event("epoch_metrics", epoch), push_ok)
    ELSE Sent(self)

\* RealTimeTrainingCallback.on_batch_end
on_batch_end(self, batch, push_ok) ==
    IF batch % (log_interval * 10) = 0
    THEN send_metrics(self, Event("batch_metrics", batch), push_ok)
    ELSE Sent(self)

\* RealTimeTrainingCallback.close
close(self) == [self EXCEPT !.ws = IF @ = None THEN None ELSE "closed"]

\* optimizer.step() after loss.backward()
OptimizerStep(self) ==
    [self EXCEPT !.params = @ + 1, !.optimizer.steps = @ + 1]

\* save_checkpoint writing a file that torch.save leaves unfinished
Truncated(self) == [self EXCEPT !.checkpoint.file = "truncated"]

\* save_checkpoint
save_checkpoint(self) ==
    [self EXCEPT !.checkpoint =
        [file |-> "complete", model_state_dict |-> self.params,
         optimizer_state_dict |-> self.optimizer, history |-> self.history]]

\* load_checkpoint
load_checkpoint(self) ==
    [self EXCEPT !.params = self.checkpoint.model_state_dict,
                 !.optimizer = self.checkpoint.optimizer_state_dict,
                 !.history = self.checkpoint.history]

\* a ranker as train_realtime(epochs=2, early_stopping_patience=2) leaves it
\* after two epochs of one mini-batch with validation losses 1 and 2 and no
\* failing push: the checkpoint is that of the first epoch
RankerTrained(new) ==
    LET batch0 == on_batch_end(OptimizerStep(new), 0, TRUE).self
        epoch0 == on_epoch_end([batch0 EXCEPT !.history = Append(@, 1)], 0, TRUE).self
        batch1 == on_batch_end(OptimizerStep(save_checkpoint(epoch0)), 0, TRUE).self
        epoch1 == on_epoch_end([batch1 EXCEPT !.history = Append(@, 2)], 1, TRUE).self
    IN  close(epoch1)

\* the rankers a call is made on: new ones and ones trained before
Rankers ==
    LET new == {RankerNew(None, None), RankerNew("ws://subscriber", "open"),
                RankerNew("ws://subscriber", None)}
    IN  new \cup {RankerTrained(r) : r \in new}

\* a new call may start: no call is in progress
Callable == session.pc = "idle"

Fail(error) == [session EXCEPT !.pc = "raised", !.raised = error]

\* an average over no batch
NoBatchTolerated(batch_count) == FALSE

\* train_loss / batch_count raises ZeroDivisionError when the loader gave no batch
NoBatchRaises(batch_count) == batch_count = 0

\* where the loop goes at the top of an epoch
LoopEntry(n_batches) == IF n_batches = 0 THEN "epoch_end" ELSE "batch"

\* train_realtime up to the first epoch (lines 303-324)
TrainRealtimeBegin ==
    /\ Callable
    /\ \E epochs \in 0..MaxEpochs, early_stopping_patience \in 0..MaxPatience,
          n_batches \in 0..MaxBatches, has_val \in BOOLEAN :
          session' = [SessionIdle EXCEPT
                        !.op = "train_realtime",
                        !.pc = IF epochs = 0 THEN "cleanup" ELSE LoopEntry(n_batches),
                        !.epochs = epochs,
                        !.early_stopping_patience = early_stopping_patience,
                        !.n_batches = n_batches,
                        !.has_val = has_val,
                        !.before = Before(ranker)]
    /\ UNCHANGED <<gate, split, metric, trainer, call, balance, ranker, engineer, script, criterion, consumer>>

\* one mini-batch of train_realtime (334-355) or incremental_update (471-483):
\* the criterion returns the float 0.0 for a batch without an informative
\* pair, which has no backward()
TrainBatch ==
    /\ session.pc = "batch"
    /\ \E informative \in BOOLEAN :
       \E push_ok \in IF informative /\ session.op = "train_realtime" /\ ranker.ws = "open"
                         /\ session.batch_idx % (log_interval * 10) = 0
                      THEN BOOLEAN ELSE {TRUE} :
          IF ~informative
          THEN /\ session' = Fail("AttributeError")
               /\ ranker' = ranker
          ELSE LET stepped == OptimizerStep(ranker)
                   sent == IF session.op = "train_realtime"
                           THEN on_batch_end(stepped, session.batch_idx, push_ok)
                           ELSE Sent(stepped)
                   next == [session EXCEPT
                              !.batch_idx = @ + 1, !.batch_count = @ + 1,
                              !.steps = @ + 1,
                              !.first_step_from =
                                  IF session.steps = 0 THEN Before(ranker) ELSE @,
                              !.pc = IF session.batch_idx + 1 = session.n_batches
                                     THEN "epoch_end" ELSE "batch"]
               IN  /\ ranker' = sent.self
                   /\ session' = IF sent.raised = None THEN next
                                 ELSE [next EXCEPT !.pc = "raised", !.raised = sent.raised]
    /\ UNCHANGED <<gate, split, metric, trainer, call, balance, engineer, script, criterion, consumer>>

\* the early-stopping test breaking one epoch late
EarlyStoppingLate(val_loss, best_val_loss, patience_counter, early_stopping_patience) ==
    IF val_loss < best_val_loss
    THEN [best_val_loss |-> val_loss, patience_counter |-> 0, save |-> TRUE,
          break |-> FALSE]
    ELSE [best_val_loss |-> best_val_loss, patience_counter |-> patience_counter + 1,
          save |-> FALSE,
          break |-> patience_counter + 1 > early_stopping_patience]

\* the early-stopping test taking an equal loss for an improvement
EarlyStoppingOnTies(val_loss, best_val_loss, patience_counter, early_stopping_patience) ==
    IF val_loss <= best_val_loss
    THEN [best_val_loss |-> val_loss, patience_counter |-> 0, save |-> TRUE,
          break |-> FALSE]
    ELSE [best_val_loss |-> best_val_loss, patience_counter |-> patience_counter + 1,
          save |-> FALSE,
          break |-> patience_counter + 1 >= early_stopping_patience]

\* the early-stopping test of train_realtime (391-401): the state after the
\* epoch and whether the loop breaks
EarlyStopping(val_loss, best_val_loss, patience_counter, early_stopping_patience) ==
    IF val_loss < best_val_loss
    THEN [best_val_loss |-> val_loss, patience_counter |-> 0, save |-> TRUE,
          break |-> FALSE]
    ELSE [best_val_loss |-> best_val_loss, patience_counter |-> patience_counter + 1,
          save |-> FALSE,
          break |-> patience_counter + 1 >= early_stopping_patience]

\* the end of one epoch of train_realtime (357-401): validation, history,
\* epoch event, early stopping and checkpoint
TrainEpochEnd ==
    /\ session.op = "train_realtime"
    /\ session.pc = "epoch_end"
    /\ IF NoBatchRaises(session.batch_count)
       THEN /\ session' = Fail("ZeroDivisionError")
            /\ ranker' = ranker
       ELSE \E val_ok \in IF session.has_val THEN BOOLEAN ELSE {TRUE}, val_loss \in Losses :
            \E push_ok \in IF val_ok /\ ranker.ws = "open"
                              /\ (session.epoch % log_interval = 0 \/ session.epoch = 0)
                           THEN BOOLEAN ELSE {TRUE} :
            \E save_ok \in IF val_ok /\ val_loss < session.best_val_loss
                           THEN BOOLEAN ELSE {TRUE} :
               IF ~val_ok
               THEN /\ session' = Fail("AttributeError")
                    /\ ranker' = ranker
               ELSE LET recorded == [ranker EXCEPT !.history = Append(@, val_loss)]
                        sent == on_epoch_end(recorded, session.epoch, push_ok)
                        es == EarlyStopping(val_loss, session.best_val_loss,
                                            session.patience_counter,
                                            session.early_stopping_patience)
                        saved == IF ~es.save THEN sent.self
                                 ELSE IF save_ok THEN save_checkpoint(sent.self)
                                 ELSE Truncated(sent.self)
                        last == es.break \/ session.epoch + 1 = session.epochs
                        next == [session EXCEPT
                                   !.best_val_loss = es.best_val_loss,
                                   !.patience_counter = es.patience_counter,
                                   !.log = Append(@, [val_loss |-> val_loss,
                                                      params |-> ranker.params,
                                                      optimizer |-> ranker.optimizer]),
                                   !.epoch = IF last THEN @ ELSE @ + 1,
                                   !.batch_idx = 0, !.batch_count = 0,
                                   !.pc = IF last THEN "cleanup" ELSE "batch"]
                    IN  IF sent.raised # None
                        THEN /\ ranker' = sent.self
                             /\ session' = Fail(sent.raised)
                        ELSE IF es.save /\ ~save_ok
                        THEN /\ ranker' = saved
                             /\ session' = [next EXCEPT !.pc = "raised", !.raised = "OSError"]
                        ELSE /\ ranker' = saved
                             /\ session' = next
    /\ UNCHANGED <<gate, split, metric, trainer, call, balance, engineer, script, criterion, consumer>>

\* the cleanup and return of train_realtime (403-414)
TrainRealtimeReturn ==
    /\ session.op = "train_realtime"
    /\ session.pc = "cleanup"
    /\ ranker' = close(ranker)
    /\ session' = [session EXCEPT
                     !.pc = "returned",
                     !.result = [best_val_loss |-> session.best_val_loss,
                                 total_epochs |-> Len(ranker.history)]]
    /\ UNCHANGED <<gate, split, metric, trainer, call, balance, engineer, script, criterion, consumer>>

\* incremental_update building a new network and optimizer before its loop
IncrementalUpdateReinitialized ==
    /\ Callable
    /\ \E n_epochs \in 0..MaxEpochs, n_batches \in 0..MaxBatches :
          session' = [SessionIdle EXCEPT
                        !.op = "incremental_update",
                        !.pc = IF n_epochs = 0 THEN "returned" ELSE LoopEntry(n_batches),
                        !.epochs = n_epochs,
                        !.n_batches = n_batches,
                        !.before = Before(ranker)]
    /\ ranker' = [ranker EXCEPT !.params = 0, !.optimizer = [steps |-> 0]]
    /\ UNCHANGED <<gate, split, metric, trainer, call, balance, engineer, script, criterion, consumer>>

\* incremental_update up to the first epoch (460-465)
IncrementalUpdateBegin ==
    /\ Callable
    /\ \E n_epochs \in 0..MaxEpochs, n_batches \in 0..MaxBatches :
          session' = [SessionIdle EXCEPT
                        !.op = "incremental_update",
                        !.pc = IF n_epochs = 0 THEN "returned" ELSE LoopEntry(n_batches),
                        !.epochs = n_epochs,
                        !.n_batches = n_batches,
                        !.before = Before(ranker)]
    /\ UNCHANGED <<gate, split, metric, trainer, call, balance, ranker, engineer, script, criterion, consumer>>

\* the end of one epoch of incremental_update (485-495)
IncrementalEpochEnd ==
    /\ session.op = "incremental_update"
    /\ session.pc = "epoch_end"
    /\ IF NoBatchRaises(session.batch_count)
       THEN /\ session' = Fail("ZeroDivisionError")
            /\ ranker' = ranker
       ELSE \E push_ok \in IF ranker.ws = "open" THEN BOOLEAN ELSE {TRUE} :
               LET sent == send_metrics(ranker, Event("incremental_update", session.epoch),
                                        push_ok)
                   last == session.epoch + 1 = session.epochs
               IN  /\ ranker' = sent.self
                   /\ session' =
                        IF sent.raised # None THEN Fail(sent.raised)
                        ELSE [session EXCEPT
                                !.epoch = IF last THEN @ ELSE @ + 1,
                                !.batch_idx = 0, !.batch_count = 0,
                                !.pc = IF last THEN "returned" ELSE "batch"]
    /\ UNCHANGED <<gate, split, metric, trainer, call, balance, engineer, script, criterion, consumer>>

\* online_update: the forward pass of one sample through the batch-norm
\* layers in training mode may raise; otherwise one optimizer step
OnlineUpdate ==
    /\ Callable
    /\ \E forward_ok \in BOOLEAN :
          LET begun == [SessionIdle EXCEPT
                          !.op = "online_update",
                          !.before = Before(ranker)]
          IN  IF forward_ok
              THEN /\ ranker' = OptimizerStep(ranker)
                   /\ session' = [begun EXCEPT !.pc = "returned", !.steps = 1,
                                                !.first_step_from = Before(ranker)]
              ELSE /\ ranker' = ranker
                   /\ session' = [begun EXCEPT !.pc = "raised", !.raised = "ValueError"]
    /\ UNCHANGED <<gate, split, metric, trainer, call, balance, engineer, script, criterion, consumer>>

\* load_checkpoint('best_neural_model.pt')
LoadCheckpoint ==
    /\ Callable
    /\ LET begun == [SessionIdle EXCEPT !.op = "load_checkpoint"]
       IN  IF ranker.checkpoint.file = "complete"
           THEN /\ ranker' = load_checkpoint(ranker)
                /\ session' = [begun EXCEPT !.pc = "returned"]
           ELSE /\ ranker' = ranker
                /\ session' = [begun EXCEPT
                                 !.pc = "raised",
                                 !.raised = IF ranker.checkpoint.file = "missing"
                                            THEN "FileNotFoundError" ELSE "RuntimeError"]
    /\ UNCHANGED <<gate, split, metric, trainer, call, balance, engineer, script, criterion, consumer>>

\* get_live_metrics taking the newest event of the queue first
GetLiveMetricsNewestFirst ==
    /\ \/ /\ consumer.pc = "idle"
          /\ consumer' = [consumer EXCEPT !.pc = "empty", !.metrics = <<>>]
          /\ ranker' = ranker
       \/ /\ consumer.pc = "empty"
          /\ consumer' = IF ranker.metric_queue = <<>>
                         THEN [consumer EXCEPT !.pc = "idle", !.metrics = <<>>,
                                               !.returned = @ \o consumer.metrics]
                         ELSE [consumer EXCEPT !.pc = "get"]
          /\ ranker' = ranker
       \/ /\ consumer.pc \in {"get", "blocked"}
          /\ IF ranker.metric_queue = <<>>
             THEN /\ consumer' = [consumer EXCEPT !.pc = "blocked"]
                  /\ ranker' = ranker
             ELSE /\ consumer' = [consumer EXCEPT
                                    !.pc = "empty",
                                    !.metrics = Append(@, ranker.metric_queue[Len(ranker.metric_queue)])]
                  /\ ranker' = [ranker EXCEPT !.metric_queue = SubSeq(@, 1, Len(@) - 1)]
    /\ UNCHANGED <<gate, split, metric, trainer, call, balance, session, engineer, script, criterion>>

\* RealTimeNeuralRanker.get_live_metrics (558-563) run by a thread of its own:
\* each access of the queue is one step.  Queue.get() on an empty queue waits
\* for the next put (pc "blocked"); returned lists the events of the calls
\* that have returned
GetLiveMetrics ==
    /\ \/ /\ consumer.pc = "idle"
          /\ consumer' = [consumer EXCEPT !.pc = "empty", !.metrics = <<>>]
          /\ ranker' = ranker
       \/ /\ consumer.pc = "empty"
          /\ consumer' = IF ranker.metric_queue = <<>>
                         THEN [consumer EXCEPT !.pc = "idle", !.metrics = <<>>,
                                               !.returned = @ \o consumer.metrics]
                         ELSE [consumer EXCEPT !.pc = "get"]
          /\ ranker' = ranker
       \/ /\ consumer.pc \in {"get", "blocked"}
          /\ IF ranker.metric_queue = <<>>
             THEN /\ consumer' = [consumer EXCEPT !.pc = "blocked"]
                  /\ ranker' = ranker
             ELSE /\ consumer' = [consumer EXCEPT
                                    !.pc = "empty",
                                    !.metrics = Append(@, Head(ranker.metric_queue))]
                  /\ ranker' = [ranker EXCEPT !.metric_queue = Tail(@)]
    /\ UNCHANGED <<gate, split, metric, trainer, call, balance, session, engineer, script, criterion>>

NextRanker ==
    \/ TrainRealtimeBegin
    \/ TrainBatch
    \/ TrainEpochEnd
    \/ TrainRealtimeReturn
    \/ IncrementalUpdateBegin
    \/ IncrementalEpochEnd
    \/ OnlineUpdate
    \/ LoadCheckpoint

\* ====================================================== SEOFeatureEngineer

MaxCount == 2           \* counts of the ratio features' source columns are 0..MaxCount
MaxFrameRows == 4       \* rows of a frame given to engineer_features

Ceiling == 100

\* A float64 is the exact fraction num / den (den > 0, lowest terms); den = 0
\* holds the special values: nan is 0/0, inf is 1/0 and -inf is -1/0.  log1p
\* marks the value log(1 + num / den), which is kept symbolic.  A DataFrame is
\* the record [columns, data]: the labels in order and, per label, the values.
Float(num, den) == [num |-> num, den |-> den, log1p |-> FALSE]

\* a / b of two Series elements: no exception, x / 0 is inf (nan for 0 / 0)
Divide(a, b) ==
    LET RECURSIVE Gcd(_, _)
        Gcd(m, n) == IF n = 0 THEN m ELSE Gcd(n, m % n)
        Fraction(num, den) ==
            LET g == Gcd(IF num < 0 THEN 0 - num ELSE num, den)
            IN  Float(num \div g, den \div g)
    IN  IF (a.den = 0 /\ a.num = 0) \/ (b.den = 0 /\ b.num = 0) THEN Float(0, 0)
        ELSE IF b.den = 0 THEN (IF a.den > 0 THEN Float(0, 1) ELSE Float(0, 0))
        ELSE IF a.den = 0 THEN (IF b.num < 0 THEN Float(0 - a.num, 0) ELSE a)
        ELSE IF b.num = 0
             THEN (IF a.num = 0 THEN Float(0, 0)
                   ELSE IF a.num > 0 THEN Float(1, 0) ELSE Float(0 - 1, 0))
        ELSE IF b.num > 0 THEN Fraction(a.num * b.den, a.den * b.num)
        ELSE Fraction(0 - (a.num * b.den), a.den * (0 - b.num))

\* a + b of two Series elements (nan propagates)
Add(a, b) ==
    IF (a.den = 0 /\ a.num = 0) \/ (b.den = 0 /\ b.num = 0) THEN Float(0, 0)
    ELSE IF a.den = 0 THEN (IF b.den = 0 /\ b.num # a.num THEN Float(0, 0) ELSE a)
    ELSE IF b.den = 0 THEN b
    ELSE Divide(Float(a.num * b.den + b.num * a.den, 1), Float(a.den * b.den, 1))

\* df[col] = values: replaces the column in place or appends it as the last one
Assign(df, col, values) ==
    IF col \in Range(df.columns)
    THEN [columns |-> df.columns, data |-> [df.data EXCEPT ![col] = values]]
    ELSE [columns |-> Append(df.columns, col),
          data |-> [c \in Range(df.columns) \cup {col} |->
                       IF c = col THEN values ELSE df.data[c]]]

\* np.where(condition > 0, x, y) without the guard: x whatever the condition
where_unguarded(condition, x, y) == x

\* np.where(condition > 0, x, y): both branches are computed, the guard selects
\* (nan > 0 is False)
where(condition, x, y) ==
    [i \in 1..Len(condition) |-> IF condition[i].num > 0 THEN x[i] ELSE y]

anchor_cols ==
    <<"exact_match_anchors", "partial_match_anchors", "branded_anchors", "generic_anchors">>

create_ratio_features(df) ==
    LET Has(d, cols) == cols \subseteq Range(d.columns)
        Quotients(x, y) == [i \in 1..Len(x) |-> Divide(x[i], y[i])]
        \* df[anchor_cols].sum(axis=1): the row sums, nan counted as 0
        RECURSIVE RowSums(_, _)
        RowSums(d, cols) ==
            IF cols = <<>> THEN [i \in 1..Len(d.data[anchor_cols[1]]) |-> Float(0, 1)]
            ELSE LET rest == RowSums(d, Tail(cols))
                     col == d.data[Head(cols)]
                 IN  [i \in 1..Len(col) |->
                         IF col[i].den = 0 /\ col[i].num = 0 THEN rest[i]
                         ELSE Add(col[i], rest[i])]
        image_alt_ratio(d) ==
            IF Has(d, {"images_with_alt_text", "image_count"})
            THEN Assign(d, "image_alt_ratio",
                        where(d.data["image_count"],
                              Quotients(d.data["images_with_alt_text"], d.data["image_count"]),
                              Float(1, 1)))
            ELSE d
        dofollow_ratio(d) ==
            IF Has(d, {"dofollow_links", "total_backlinks"})
            THEN Assign(d, "dofollow_ratio",
                        where(d.data["total_backlinks"],
                              Quotients(d.data["dofollow_links"], d.data["total_backlinks"]),
                              Float(0, 1)))
            ELSE d
        authority_distribution(d) ==
            IF Has(d, {"high_authority_links", "medium_authority_links",
                       "low_authority_links", "total_backlinks"})
            THEN LET low == d.data["low_authority_links"]
                     high == Assign(d, "high_authority_ratio",
                                 where(d.data["total_backlinks"],
                                       Quotients(d.data["high_authority_links"],
                                                 d.data["total_backlinks"]),
                                       Float(0, 1)))
                 IN  Assign(high, "authority_concentration",
                            where(d.data["total_backlinks"],
                                  Quotients(d.data["high_authority_links"],
                                            [i \in 1..Len(low) |-> Add(low[i], Float(1, 1))]),
                                  Float(0, 1)))
            ELSE d
        \* col.replace('_anchors', '_anchor_ratio')
        ratio_col ==
            [exact_match_anchors |-> "exact_match_anchor_ratio",
             partial_match_anchors |-> "partial_match_anchor_ratio",
             branded_anchors |-> "branded_anchor_ratio",
             generic_anchors |-> "generic_anchor_ratio"]
        RECURSIVE AnchorRatios(_, _, _)
        AnchorRatios(d, cols, total_anchors) ==
            IF cols = <<>> THEN d
            ELSE AnchorRatios(Assign(d, ratio_col[Head(cols)],
                                     where(total_anchors,
                                           Quotients(d.data[Head(cols)], total_anchors),
                                           Float(0, 1))),
                              Tail(cols), total_anchors)
        anchor_text_diversity(d) ==
            IF Has(d, Range(anchor_cols))
            THEN AnchorRatios(d, anchor_cols, RowSums(d, anchor_cols))
            ELSE d
        \* Series.replace(float('inf'), 100)
        replace(values) ==
            [i \in 1..Len(values) |->
                IF values[i] = Float(1, 0) THEN Float(Ceiling, 1) ELSE values[i]]
        content_to_code_ratio(d) ==
            IF Has(d, {"content_length", "javascript_size", "css_size"})
            THEN LET js == d.data["javascript_size"]
                     total_code == [i \in 1..Len(js) |-> Add(js[i], d.data["css_size"][i])]
                 IN  Assign(d, "content_to_code_ratio",
                            replace(where(total_code,
                                          Quotients(d.data["content_length"], total_code),
                                          Float(1, 0))))
            ELSE d
    IN  content_to_code_ratio(
            anchor_text_diversity(
                authority_distribution(
                    dofollow_ratio(
                        image_alt_ratio(df)))))

\* _create_text_features(df, fit): [tfidf_vectorizer, df, in_place, raised], in_place
\* being the frame as it is before pd.concat binds df to a new one
create_text_features(tfidf_vectorizer, df, fit) ==
    LET \* The titles of the model are one-word strings; per title, what the string
        \* methods give and its lower-cased token.
        Titles ==
            [seo  |-> [title_word_count |-> 1, title_char_count |-> 3,
                       title_has_number |-> 0, title_has_question |-> 0,
                       title_has_power_word |-> 0, title_is_title_case |-> 0,
                       title_positive_sentiment |-> 0, token |-> "seo"],
             Best |-> [title_word_count |-> 1, title_char_count |-> 4,
                       title_has_number |-> 0, title_has_question |-> 0,
                       title_has_power_word |-> 1, title_is_title_case |-> 1,
                       title_positive_sentiment |-> 1, token |-> "best"]]
        title_columns ==
            <<"title_word_count", "title_char_count", "title_has_number",
              "title_has_question", "title_has_power_word", "title_is_title_case",
              "title_positive_sentiment">>
        \* the tokens in the order of TfidfVectorizer's sorted vocabulary
        Tokens == <<"best", "seo">>
        tfidf_columns == <<"tfidf_0", "tfidf_1">>
        RECURSIVE TitleFeatures(_, _)
        TitleFeatures(d, cols) ==
            IF cols = <<>> THEN d
            ELSE TitleFeatures(Assign(d, Head(cols),
                                      [i \in 1..Len(d.data["title_tag"]) |->
                                          Float(Titles[d.data["title_tag"][i]][Head(cols)], 1)]),
                               Tail(cols))
        \* TfidfVectorizer.fit: the vocabulary is the sorted set of the corpus' tokens
        Vocabulary(combined_text) ==
            SelectSeq(Tokens, LAMBDA token :
                \E i \in 1..Len(combined_text) : Titles[combined_text[i]].token = token)
        \* TfidfVectorizer.transform and pd.concat: one column per vocabulary entry;
        \* the l2-normalised tf-idf of a one-token document is 1 for its token
        RECURSIVE Concat(_, _, _, _)
        Concat(d, vocabulary, combined_text, i) ==
            IF i > Len(vocabulary) THEN d
            ELSE Concat(Assign(d, tfidf_columns[i],
                               [r \in 1..Len(combined_text) |->
                                   IF Titles[combined_text[r]].token = vocabulary[i]
                                   THEN Float(1, 1) ELSE Float(0, 1)]),
                        vocabulary, combined_text, i + 1)
    IN  IF "title_tag" \notin Range(df.columns)
        THEN [tfidf_vectorizer |-> tfidf_vectorizer, df |-> df, in_place |-> df,
              concatenated |-> FALSE, raised |-> None]
        ELSE LET titled == TitleFeatures(df, title_columns)
                 combined_text == df.data["title_tag"]
                 fitted == IF fit
                           THEN [fitted |-> TRUE, vocabulary |-> Vocabulary(combined_text)]
                           ELSE tfidf_vectorizer
             IN  IF ~fitted.fitted
                 THEN [tfidf_vectorizer |-> tfidf_vectorizer, df |-> titled,
                       in_place |-> titled, concatenated |-> FALSE,
                       raised |-> "NotFittedError"]
                 ELSE [tfidf_vectorizer |-> fitted,
                       df |-> Concat(titled, fitted.vocabulary, combined_text, 1),
                       in_place |-> titled, concatenated |-> TRUE, raised |-> None]

\* _log_transform_features, for the candidates that are columns of the model
log_transform_features(df) ==
    LET log_transform_candidates ==
            <<"total_backlinks", "content_length", "javascript_size", "css_size">>
        log_name ==
            [total_backlinks |-> "total_backlinks_log",
             content_length |-> "content_length_log",
             javascript_size |-> "javascript_size_log", css_size |-> "css_size_log"]
        dropna(values) == SelectSeq(values, LAMBDA x : ~(x.den = 0 /\ x.num = 0))
        \* abs(stats.skew(values)) > 1 for integer values: with d[i] = n * x[i] - sum,
        \* m3 / m2 ^ 1.5 exceeds 1 in size iff n * (sum d^3)^2 > (sum d^2)^3; the
        \* skew of a constant or empty column is nan, and abs(nan) > 1 is False
        HighlySkewed(values) ==
            LET n == Len(values)
                total == SumSeq([i \in 1..n |-> values[i].num])
                d == [i \in 1..n |-> n * values[i].num - total]
                m2 == SumSeq([i \in 1..n |-> d[i] * d[i]])
                m3 == SumSeq([i \in 1..n |-> d[i] * d[i] * d[i]])
            IN  m2 > 0 /\ n * m3 * m3 > m2 * m2 * m2
        \* np.log1p of one value
        log1p(x) == IF x.den > 0 /\ x.num # 0 THEN [x EXCEPT !.log1p = TRUE] ELSE x
        RECURSIVE Transform(_, _)
        Transform(d, candidates) ==
            IF candidates = <<>> THEN d
            ELSE LET feature == Head(candidates)
                 IN  Transform(
                         IF feature \in Range(d.columns)
                                /\ HighlySkewed(dropna(d.data[feature]))
                         THEN Assign(d, log_name[feature],
                                     [i \in 1..Len(d.data[feature]) |->
                                         log1p(d.data[feature][i])])
                         ELSE d,
                         Tail(candidates))
    IN  Transform(df, log_transform_candidates)

\* _handle_missing_values; the text column of the model has no missing value
handle_missing_values(df) ==
    LET \* the numeric columns of the model whose name holds 'count', 'total' or 'number'
        CountLike ==
            {"total_backlinks", "total_backlinks_log", "title_word_count",
             "title_char_count", "title_has_number"}
        IsNaN(x) == x.den = 0 /\ x.num = 0
        Less(a, b) == a.num * b.den < b.num * a.den
        RECURSIVE SortFloats(_)
        SortFloats(values) ==
            IF values = <<>> THEN <<>>
            ELSE LET m == CHOOSE i \in 1..Len(values) :
                              \A j \in 1..Len(values) : ~Less(values[j], values[i])
                 IN  <<values[m]>> \o
                     SortFloats([i \in 1..(Len(values) - 1) |->
                                    IF i < m THEN values[i] ELSE values[i + 1]])
        \* Series.median(): nan left out; nan for a column without a value
        Median(values) ==
            LET sorted == SortFloats(SelectSeq(values, LAMBDA x : ~IsNaN(x)))
                n == Len(sorted)
            IN  IF n = 0 THEN Float(0, 0)
                ELSE IF n % 2 = 1 THEN sorted[(n + 1) \div 2]
                ELSE Divide(Add(sorted[n \div 2], sorted[n \div 2 + 1]), Float(2, 1))
        fillna(values, value) ==
            [i \in 1..Len(values) |-> IF IsNaN(values[i]) THEN value ELSE values[i]]
        RECURSIVE FillColumns(_, _)
        FillColumns(d, cols) ==
            IF cols = <<>> THEN d
            ELSE LET col == Head(cols)
                     values == d.data[col]
                 IN  FillColumns(
                         IF \E i \in 1..Len(values) : IsNaN(values[i])
                         THEN Assign(d, col,
                                     IF col \in CountLike THEN fillna(values, Float(0, 1))
                                     ELSE fillna(values, Median(values)))
                         ELSE d,
                         Tail(cols))
    IN  \* the numeric columns are those that hold no text
        FillColumns(df, SelectSeq(df.columns, LAMBDA c : c # "title_tag"))

\* lines 89-94 without their else branch: transform mode leaves the frame unscaled
scale_fit_only(scaler, df, fit) ==
    LET \* select_dtypes(include=[np.number]): the columns that hold no text
        numeric_features == SelectSeq(df.columns, LAMBDA c : c # "title_tag")
        \* mean_ and scale_ of a column are kept symbolic, as the values they are
        \* computed from, and so is the scaled value (x - mean_) / scale_
        RECURSIVE Columns(_, _, _)
        Columns(d, statistics, i) ==
            IF i > Len(numeric_features) THEN d
            ELSE Columns(Assign(d, numeric_features[i],
                                [r \in 1..Len(d.data[numeric_features[i]]) |->
                                    [value |-> d.data[numeric_features[i]][r],
                                     statistics |-> statistics[i]]]),
                         statistics, i + 1)
        Transformed(d, statistics) == Columns(d, statistics, 1)
        fitted == [scaler EXCEPT !.fitted = TRUE, !.feature_names_in = numeric_features,
                       !.statistics = [i \in 1..Len(numeric_features) |->
                                          [fitted_on |-> df.data[numeric_features[i]]]]]
    IN  IF scaler.kind = None \/ ~fit
        THEN [scaler |-> scaler, df |-> df, raised |-> None]
        ELSE [scaler |-> fitted, df |-> Transformed(df, fitted.statistics),
              raised |-> None]

\* lines 89-94: scaler.fit_transform or scaler.transform of the numeric columns
scale(scaler, df, fit) ==
    LET \* select_dtypes(include=[np.number]): the columns that hold no text
        numeric_features == SelectSeq(df.columns, LAMBDA c : c # "title_tag")
        \* mean_ and scale_ of a column are kept symbolic, as the values they are
        \* computed from, and so is the scaled value (x - mean_) / scale_
        RECURSIVE Columns(_, _, _)
        Columns(d, statistics, i) ==
            IF i > Len(numeric_features) THEN d
            ELSE Columns(Assign(d, numeric_features[i],
                                [r \in 1..Len(d.data[numeric_features[i]]) |->
                                    [value |-> d.data[numeric_features[i]][r],
                                     statistics |-> statistics[i]]]),
                         statistics, i + 1)
        Transformed(d, statistics) == Columns(d, statistics, 1)
        fitted == [scaler EXCEPT !.fitted = TRUE, !.feature_names_in = numeric_features,
                       !.statistics = [i \in 1..Len(numeric_features) |->
                                          [fitted_on |-> df.data[numeric_features[i]]]]]
    IN  IF scaler.kind = None
        THEN [scaler |-> scaler, df |-> df, raised |-> None]
        ELSE IF fit
        THEN [scaler |-> fitted, df |-> Transformed(df, fitted.statistics),
              raised |-> None]
        ELSE IF ~scaler.fitted
        THEN [scaler |-> scaler, df |-> df, raised |-> "NotFittedError"]
        ELSE IF numeric_features # scaler.feature_names_in
        THEN [scaler |-> scaler, df |-> df, raised |-> "ValueError"]
        ELSE [scaler |-> scaler, df |-> Transformed(df, scaler.statistics),
              raised |-> None]

\* SEOFeatureEngineer(scaler_type, create_ratios=..., create_text_features=...): the
\* scaler is a StandardScaler for 'standard' and None for a type __init__ does not
\* know; pc, before, first and last record the calls made on the instance
EngineerNew(scaler_type, ratios, text) ==
    LET scaler == [kind |-> IF scaler_type = "standard" THEN "StandardScaler" ELSE None,
                   fitted |-> FALSE, feature_names_in |-> <<>>, statistics |-> <<>>]
        tfidf_vectorizer == [fitted |-> FALSE, vocabulary |-> <<>>]
        NoFrame == [columns |-> <<>>, data |-> <<>>]
        NoCall == [called |-> FALSE, df |-> NoFrame, fit |-> FALSE, out |-> NoFrame,
                   raised |-> None, caller |-> NoFrame]
    IN  [scaler_type |-> scaler_type,
         create_ratios |-> ratios,
         create_text_features |-> text,
         scaler |-> scaler,
         tfidf_vectorizer |-> tfidf_vectorizer,
         feature_names |-> <<>>,
         pc |-> "new",
         before |-> [scaler |-> scaler, tfidf_vectorizer |-> tfidf_vectorizer],
         first |-> NoCall,
         last |-> NoCall]

EngineerIdle == EngineerNew("standard", TRUE, TRUE)

\* engineer_features(df, fit): [self, out, raised, caller], caller being the caller's
\* frame after the call.  The frames of the model have none of the source columns
\* of the basic, interaction, temporal and composite steps, which leave them as
\* they are.
engineer_features(self, df, fit) ==
    LET \* df.copy(): the pipeline's frame is not the caller's
        df_features == [frame |-> df, shared |-> FALSE]
        \* pd.concat binds df to a new frame; everything before it is done in place
        Caller(text, scaled) ==
            IF ~df_features.shared THEN df
            ELSE IF text.concatenated \/ text.raised # None THEN text.in_place
            ELSE scaled.df
        Returned(text, scaled) ==
            IF text.raised # None
            THEN [self |-> self, out |-> [columns |-> <<>>, data |-> <<>>],
                  raised |-> text.raised, caller |-> Caller(text, scaled)]
            ELSE IF scaled.raised # None
            THEN [self |-> [self EXCEPT !.tfidf_vectorizer = text.tfidf_vectorizer],
                  out |-> [columns |-> <<>>, data |-> <<>>],
                  raised |-> scaled.raised, caller |-> Caller(text, scaled)]
            ELSE [self |-> [self EXCEPT !.tfidf_vectorizer = text.tfidf_vectorizer,
                                        !.scaler = scaled.scaler,
                                        !.feature_names = scaled.df.columns],
                  out |-> scaled.df, raised |-> None, caller |-> Caller(text, scaled)]
        \* log transform, missing values and scaling of the frame the text step left
        Scaling(text) ==
            Returned(text, scale(self.scaler,
                                 handle_missing_values(log_transform_features(text.df)),
                                 fit))
        Text(ratios) ==
            Scaling(IF self.create_text_features
                    THEN create_text_features(self.tfidf_vectorizer, ratios, fit)
                    ELSE [tfidf_vectorizer |-> self.tfidf_vectorizer, df |-> ratios,
                          in_place |-> ratios, concatenated |-> FALSE, raised |-> None])
    IN  Text(IF self.create_ratios THEN create_ratio_features(df_features.frame)
             ELSE df_features.frame)

\* one-row frames with the source columns of one family of ratio features, every
\* value a count of 0..max_count or missing
RatioFrames(max_count) ==
    LET V == {Float(n, 1) : n \in 0..max_count} \cup {Float(0, 0)}
        Families ==
            {<<"images_with_alt_text", "image_count">>,
             <<"dofollow_links", "total_backlinks">>,
             <<"high_authority_links", "medium_authority_links", "low_authority_links",
               "total_backlinks">>,
             anchor_cols,
             <<"content_length", "javascript_size", "css_size">>}
    IN  UNION {{[columns |-> cols, data |-> [c \in Range(cols) |-> <<row[c]>>]] :
                   row \in [Range(cols) -> V]} : cols \in Families}

\* the frames given to engineer_features: n rows of total_backlinks (0 or 1, k
\* rows with 1), with or without dofollow_links (no link, every link, or every
\* link with the last row's value missing) and title_tag
EngineerFrames(n) ==
    LET B == {[i \in 1..n |-> IF i > n - k THEN Float(1, 1) ELSE Float(0, 1)] : k \in 0..n}
        Dofollow(b) ==
            {[i \in 1..n |-> Float(0, 1)], b,
             [i \in 1..n |-> IF i = n THEN Float(0, 0) ELSE b[i]]}
        BD == UNION {{<<b, x>> : x \in Dofollow(b)} : b \in B}
        T == {[i \in 1..n |-> "seo"], [i \in 1..n |-> "Best"],
              [i \in 1..n |-> IF i % 2 = 1 THEN "seo" ELSE "Best"]}
    IN  {[columns |-> <<"total_backlinks">>, data |-> [total_backlinks |-> b]] : b \in B}
        \cup {[columns |-> <<"dofollow_links", "total_backlinks">>,
               data |-> [dofollow_links |-> d[2], total_backlinks |-> d[1]]] : d \in BD}
        \cup {[columns |-> <<"total_backlinks", "title_tag">>,
               data |-> [total_backlinks |-> b, title_tag |-> t]] : b \in B, t \in T}
        \cup {[columns |-> <<"dofollow_links", "total_backlinks", "title_tag">>,
               data |-> [dofollow_links |-> d[2], total_backlinks |-> d[1],
                         title_tag |-> t]] : d \in BD, t \in T}

\* one call of engineer_features; an instance takes a second call after a
\* first call that fitted it
EngineerFeatures ==
    LET Called(df, fit, r) ==
            LET this == [called |-> TRUE, df |-> df, fit |-> fit, out |-> r.out,
                         raised |-> r.raised, caller |-> r.caller]
            IN  [r.self EXCEPT
                    !.pc = IF engineer.pc = "new" /\ fit /\ r.raised = None
                           THEN "fitted" ELSE "done",
                    !.before = [scaler |-> engineer.scaler,
                                tfidf_vectorizer |-> engineer.tfidf_vectorizer],
                    !.first = IF engineer.pc = "new" THEN this ELSE engineer.first,
                    !.last = this]
    IN  /\ engineer.pc \in {"new", "fitted"}
        /\ \E df \in EngineerFrames(MaxFrameRows), fit \in BOOLEAN :
              engineer' = Called(df, fit, engineer_features(engineer, df, fit))
        /\ UNCHANGED <<gate, split, metric, trainer, call, balance, ranker, session, script, criterion, consumer>>

\* _create_ratio_features on the frame the instance was given
CreateRatioFeatures ==
    /\ engineer.pc = "ratios"
    /\ engineer' = [engineer EXCEPT
           !.pc = "done",
           !.last = [engineer.last EXCEPT !.called = TRUE,
                         !.out = create_ratio_features(engineer.last.df),
                         !.caller = engineer.last.df]]
    /\ UNCHANGED <<gate, split, metric, trainer, call, balance, ranker, session, script, criterion, consumer>>

NextEngineer ==
    \/ EngineerFeatures
    \/ CreateRatioFeatures

\* ==================================================== command-line scripts
\* One run of train_seo_model.py or of analyze_seo.py.  argv_ok says whether
\* argparse accepts the command line; raises names the first step of the run
\* that raises an Exception (None when no step does); artifact is what the
\* model path holds.  stdout is the list of the JSON objects printed (error
\* says whether the object has the key 'error'), stderr what argparse or the
\* interpreter wrote, status the exit status of the process.

Main ==
    /\ script.pc = "start"
    /\ LET Exit(stdout, stderr, status, artifact) ==
               [script EXCEPT !.pc = "exited", !.stdout = stdout, !.stderr = stderr,
                              !.status = status, !.artifact = artifact]
           \* parser.parse_args() on a bad command line: usage message, exit 2
           Usage == Exit(<<>>, <<"usage">>, 2, script.artifact)
           \* an exception no handler catches: traceback, exit 1
           Traceback(stdout, artifact) == Exit(stdout, <<"Traceback">>, 1, artifact)
           \* SEOModelTrainer.save_model: open(model_path, 'wb') empties the
           \* file before pickle.dump writes it
           save_model(raises) ==
               IF raises = "open" THEN script.artifact
               ELSE IF raises = "pickle.dump" THEN "truncated"
               ELSE "complete"
           \* main of train_seo_model.py (232-309)
           train_main ==
               IF ~script.argv_ok THEN Usage
               ELSE IF script.raises = None
               THEN Exit(<<[error |-> FALSE]>>, <<>>, 0, "complete")
               ELSE IF script.raises \in {"json.loads", "load_dataset", "train", "mkdir"}
               THEN Exit(<<[error |-> TRUE]>>, <<>>, 1, script.artifact)
               ELSE Exit(<<[error |-> TRUE]>>, <<>>, 1, save_model(script.raises))
           \* analyze_seo (68-139): the result, or the error object of its handler
           analyze_seo ==
               IF script.raises \in {"collectCompleteData", "analyze_onpage", "predict"}
               THEN [error |-> TRUE] ELSE [error |-> FALSE]
           \* main of analyze_seo.py (375-389): json.dumps is outside any handler
           analyze_main ==
               IF ~script.argv_ok THEN Usage
               ELSE IF script.raises = "json.dumps" THEN Traceback(<<>>, script.artifact)
               ELSE Exit(<<analyze_seo>>, <<>>, 0, script.artifact)
       IN  \/ /\ script.name = "train_seo_model"
              /\ script' = train_main
           \/ /\ script.name = "analyze_seo"
              /\ script' = analyze_main
    /\ UNCHANGED <<gate, split, metric, trainer, call, balance, ranker, session, engineer, criterion, consumer>>

\* ========================================================= LambdaRankLoss
\* A pair's contribution lambda_weight * pair_loss is kept symbolic: the term
\* names the two rows, their positions in the descending score order of their
\* group and the sign of the label difference.  Both factors are positive
\* numbers, so the sum of the terms is 0 only when there is no term.

MaxBatchRows == 4       \* rows of the batch given to the criterion

\* forward counting every pair of rows of a group
forward_every_pair(scores, labels, query_ids, orders) ==
    LET RECURSIVE Pairs(_, _, _)
        Pairs(rows, i, j) ==
            IF i >= Len(rows) THEN <<>>
            ELSE IF j > Len(rows) THEN Pairs(rows, i + 1, i + 2)
            ELSE <<[i |-> rows[i], j |-> rows[j], pos_i |-> 0, pos_j |-> 0,
                    label_diff_positive |-> labels[rows[i]] > labels[rows[j]]]>>
                 \o Pairs(rows, i, j + 1)
        RECURSIVE Groups(_)
        Groups(unique_queries) ==
            IF unique_queries = <<>> THEN <<>>
            ELSE Pairs(Positions(query_ids, {Head(unique_queries)}), 1, 2)
                 \o Groups(Tail(unique_queries))
        loss == Groups(SortedSeq(Range(query_ids)))
    IN  [loss |-> loss, count |-> Len(loss),
         returns |-> IF loss = <<>> THEN "float" ELSE "Tensor"]

\* LambdaRankLoss.forward (102-149): orders gives, per query id, the rows of
\* its group by descending score (torch.argsort).  loss is the list of the
\* terms added, count their number; the value returned is their sum divided
\* by max(count, 1), the float 0.0 when nothing was added to it
forward(scores, labels, query_ids, orders) ==
    LET \* torch.argsort(torch.argsort(q_scores, descending=True))[i]
        Position(order, row) == (CHOOSE p \in DOMAIN order : order[p] = row) - 1
        RECURSIVE Pairs(_, _, _, _)
        Pairs(rows, order, i, j) ==
            IF i >= Len(rows) THEN <<>>
            ELSE IF j > Len(rows) THEN Pairs(rows, order, i + 1, i + 2)
            ELSE (IF labels[rows[i]] # labels[rows[j]]
                  THEN <<[i |-> rows[i], j |-> rows[j],
                          pos_i |-> Position(order, rows[i]),
                          pos_j |-> Position(order, rows[j]),
                          label_diff_positive |-> labels[rows[i]] > labels[rows[j]]]>>
                  ELSE <<>>)
                 \o Pairs(rows, order, i, j + 1)
        Group(rows, order) == IF Len(rows) < 2 THEN <<>> ELSE Pairs(rows, order, 1, 2)
        RECURSIVE Groups(_)
        Groups(unique_queries) ==
            IF unique_queries = <<>> THEN <<>>
            ELSE Group(Positions(query_ids, {Head(unique_queries)}),
                       orders[Head(unique_queries)])
                 \o Groups(Tail(unique_queries))
        Returned(loss) ==
            [loss |-> loss, count |-> Len(loss),
             returns |-> IF loss = <<>> THEN "float" ELSE "Tensor"]
    IN  Returned(Groups(SortedSeq(Range(query_ids))))

Forward ==
    /\ criterion.pc = "call"
    /\ LET rows == [qid \in Range(criterion.query_ids) |->
                       Positions(criterion.query_ids, {qid})]
           \* the rows of a group by descending score, in every order of ties
           Descending(qid) ==
               {Take(rows[qid], o) :
                    o \in DescendingOrders(Take(criterion.scores, rows[qid]))}
           RECURSIVE Orders(_)
           Orders(Q) ==
               IF Q = {} THEN {<<>>}
               ELSE LET q == CHOOSE x \in Q : TRUE
                    IN  {[x \in Q |-> IF x = q THEN o ELSE rest[x]] :
                            o \in Descending(q), rest \in Orders(Q \ {q})}
       IN  \E orders \in Orders(DOMAIN rows) :
              criterion' = [criterion EXCEPT
                              !.pc = "returned",
                              !.result = forward(criterion.scores, criterion.labels,
                                                 criterion.query_ids, orders)]
    /\ UNCHANGED <<gate, split, metric, trainer, call, balance, ranker, session, engineer, script, consumer>>

\* =========================================================== specifications

InitQuality ==
    /\ gate \in GateCalls(MaxFeatures)
    /\ split = SplitIdle
    /\ metric = MetricIdle
    /\ trainer = TrainerNew
    /\ call = CallIdle
    /\ balance = BalanceIdle
    /\ ranker = RankerIdle
    /\ session = SessionIdle
    /\ engineer = EngineerIdle
    /\ script = [pc |-> "idle"]
    /\ criterion = [pc |-> "idle"]
    /\ consumer = [pc |-> "idle", metrics |-> <<>>, returned |-> <<>>]

SpecQuality == InitQuality /\ [][NextQuality]_vars

InitSplit ==
    /\ gate = GateIdle
    /\ split \in SplitCalls(MaxRows)
    /\ metric = MetricIdle
    /\ trainer = TrainerNew
    /\ call = CallIdle
    /\ balance = BalanceIdle
    /\ ranker = RankerIdle
    /\ session = SessionIdle
    /\ engineer = EngineerIdle
    /\ script = [pc |-> "idle"]
    /\ criterion = [pc |-> "idle"]
    /\ consumer = [pc |-> "idle", metrics |-> <<>>, returned |-> <<>>]

SpecSplit == InitSplit /\ [][NextSplit]_vars

\* a predictor whose model was trained or loaded
TrainerTrained ==
    [TrainerNew EXCEPT !.model = "xgboost", !.scaler = "fitted",
                       !.feature_names = SplitColumns,
                       !.feature_importance = "feature_importances_"]

InitNdcg ==
    /\ gate = GateIdle
    /\ split = SplitIdle
    /\ metric \in NdcgCalls(MaxGroupSize)
    /\ trainer = TrainerNew
    /\ call = CallIdle
    /\ balance = BalanceIdle
    /\ ranker = RankerIdle
    /\ session = SessionIdle
    /\ engineer = EngineerIdle
    /\ script = [pc |-> "idle"]
    /\ criterion = [pc |-> "idle"]
    /\ consumer = [pc |-> "idle", metrics |-> <<>>, returned |-> <<>>]

SpecNdcg == InitNdcg /\ [][NextNdcg]_vars

InitMap ==
    /\ gate = GateIdle
    /\ split = SplitIdle
    /\ metric \in MapCalls(MaxMapRows)
    /\ trainer = TrainerNew
    /\ call = CallIdle
    /\ balance = BalanceIdle
    /\ ranker = RankerIdle
    /\ session = SessionIdle
    /\ engineer = EngineerIdle
    /\ script = [pc |-> "idle"]
    /\ criterion = [pc |-> "idle"]
    /\ consumer = [pc |-> "idle", metrics |-> <<>>, returned |-> <<>>]

SpecMap == InitMap /\ [][NextMap]_vars

InitEvaluate ==
    /\ gate = GateIdle
    /\ split = SplitIdle
    /\ metric \in EvaluateCalls(MaxEvalRows)
    /\ trainer \in {TrainerNew, TrainerTrained}
    /\ call = CallIdle
    /\ balance = BalanceIdle
    /\ ranker = RankerIdle
    /\ session = SessionIdle
    /\ engineer = EngineerIdle
    /\ script = [pc |-> "idle"]
    /\ criterion = [pc |-> "idle"]
    /\ consumer = [pc |-> "idle", metrics |-> <<>>, returned |-> <<>>]

SpecEvaluate == InitEvaluate /\ [][NextEvaluate]_vars

InitTrainer ==
    /\ gate = GateIdle
    /\ split = SplitIdle
    /\ metric = MetricIdle
    /\ trainer \in {[TrainerNew EXCEPT !.model_type = t] : t \in ModelTypes}
    /\ call = CallIdle
    /\ balance = BalanceIdle
    /\ ranker = RankerIdle
    /\ session = SessionIdle
    /\ engineer = EngineerIdle
    /\ script = [pc |-> "idle"]
    /\ criterion = [pc |-> "idle"]
    /\ consumer = [pc |-> "idle", metrics |-> <<>>, returned |-> <<>>]

SpecTrainer == InitTrainer /\ [][NextTrainer]_vars

InitImbalance ==
    /\ gate = GateIdle
    /\ split = SplitIdle
    /\ metric = MetricIdle
    /\ trainer = TrainerNew
    /\ call = CallIdle
    /\ balance \in BalanceCalls(MaxBalanceRows)
    /\ ranker = RankerIdle
    /\ session = SessionIdle
    /\ engineer = EngineerIdle
    /\ script = [pc |-> "idle"]
    /\ criterion = [pc |-> "idle"]
    /\ consumer = [pc |-> "idle", metrics |-> <<>>, returned |-> <<>>]

SpecImbalance == InitImbalance /\ [][NextImbalance]_vars

InitRanker ==
    /\ gate = GateIdle
    /\ split = SplitIdle
    /\ metric = MetricIdle
    /\ trainer = TrainerNew
    /\ call = CallIdle
    /\ balance = BalanceIdle
    /\ ranker \in Rankers
    /\ session = SessionIdle
    /\ engineer = EngineerIdle
    /\ script = [pc |-> "idle"]
    /\ criterion = [pc |-> "idle"]
    /\ consumer = [pc |-> "idle", metrics |-> <<>>, returned |-> <<>>]

SpecRanker == InitRanker /\ [][NextRanker]_vars

\* a new ranker without a subscriber that a second thread polls with
\* get_live_metrics
InitLive ==
    /\ gate = GateIdle
    /\ split = SplitIdle
    /\ metric = MetricIdle
    /\ trainer = TrainerNew
    /\ call = CallIdle
    /\ balance = BalanceIdle
    /\ ranker = RankerIdle
    /\ session = SessionIdle
    /\ engineer = EngineerIdle
    /\ script = [pc |-> "idle"]
    /\ criterion = [pc |-> "idle"]
    /\ consumer = [pc |-> "idle", metrics |-> <<>>, returned |-> <<>>]

SpecLive == InitLive /\ [][NextRanker \/ GetLiveMetrics]_vars

\* an instance before its first engineer_features call, or one given a frame
\* for _create_ratio_features
InitEngineer ==
    /\ gate = GateIdle
    /\ split = SplitIdle
    /\ metric = MetricIdle
    /\ trainer = TrainerNew
    /\ call = CallIdle
    /\ balance = BalanceIdle
    /\ ranker = RankerIdle
    /\ session = SessionIdle
    /\ \/ engineer \in {EngineerNew("standard", TRUE, TRUE),
                        EngineerNew("minmax", TRUE, TRUE),
                        EngineerNew("standard", FALSE, TRUE),
                        EngineerNew("standard", TRUE, FALSE)}
       \/ \E df \in RatioFrames(MaxCount) :
             engineer = [EngineerIdle EXCEPT !.pc = "ratios", !.last.df = df]
    /\ script = [pc |-> "idle"]
    /\ criterion = [pc |-> "idle"]
    /\ consumer = [pc |-> "idle", metrics |-> <<>>, returned |-> <<>>]

SpecEngineer == InitEngineer /\ [][NextEngineer]_vars

\* the runs of the two scripts and the calls of the criterion, before they run
InitCalls ==
    /\ gate = GateIdle
    /\ split = SplitIdle
    /\ metric = MetricIdle
    /\ trainer = TrainerNew
    /\ call = CallIdle
    /\ balance = BalanceIdle
    /\ ranker = RankerIdle
    /\ session = SessionIdle
    /\ engineer = EngineerIdle
    /\ consumer = [pc |-> "idle", metrics |-> <<>>, returned |-> <<>>]
    /\ \/ /\ criterion = [pc |-> "idle"]
          /\ \E argv_ok \in BOOLEAN, artifact \in {"missing", "complete"} :
                \/ \E raises \in {None, "json.loads", "load_dataset", "train", "mkdir",
                                  "open", "pickle.dump", "get_feature_importance"} :
                      script = [name |-> "train_seo_model", pc |-> "start",
                                argv_ok |-> argv_ok, raises |-> raises,
                                artifact |-> artifact,
                                stdout |-> <<>>, stderr |-> <<>>, status |-> 0]
                \/ \E raises \in {None, "collectCompleteData", "analyze_onpage",
                                  "predict", "json.dumps"} :
                      script = [name |-> "analyze_seo", pc |-> "start",
                                argv_ok |-> argv_ok, raises |-> raises,
                                artifact |-> artifact,
                                stdout |-> <<>>, stderr |-> <<>>, status |-> 0]
       \/ /\ script = [pc |-> "idle"]
          /\ \E n \in 1..MaxBatchRows :
             \E scores \in [1..n -> {0, 1}], labels \in [1..n -> {0, 1}],
                query_ids \in [1..n -> {1, 2}] :
                criterion = [pc |-> "call", scores |-> scores, labels |-> labels,
                             query_ids |-> query_ids,
                             result |-> [loss |-> <<>>, count |-> 0, returns |-> None]]

SpecCalls == InitCalls /\ [][Main \/ Forward]_vars

\* ------------------------------------------------------------------ claims

\* C1: for every feature of the threshold table and every numeric value,
\* evaluate_feature returns a score in [0,1], and calculate_overall_quality
\* returns an overall score in [0,100].
C1_ScoresInRange ==
    /\ (gate.op = "evaluate_feature" /\ gate.done
            /\ gate.feature_name \in DOMAIN get_all_thresholds)
          => /\ gate.scored.raised = None
             /\ gate.scored.score >= 0
             /\ gate.scored.score <= Scale
    /\ (gate.op = "calculate_overall_quality" /\ gate.done)
          => /\ gate.report.raised = None
             /\ gate.report.overall_score >= 0
             /\ gate.report.overall_score <= 100 * Scale

\* the query ids of the rows of one split (a feature row is its input position)
QidsOf(X) == [i \in 1..Len(X) |-> split.query_ids[X[i]]]

\* C2: no query id has rows in both the train split and the test split, and
\* every input row lands in exactly one of the two splits.
C2_SplitByQuery ==
    (split.op = "prepare_ranking_data" /\ split.done) =>
        LET r == split.result
            n == Len(split.query_ids)
        IN  /\ Range(QidsOf(r.X_train)) \cap Range(QidsOf(r.X_test)) = {}
            /\ Range(r.X_train) \cup Range(r.X_test) = 1..n
            /\ Len(r.X_train) + Len(r.X_test) = n

\* an unsorted input with several queries whose rows went to both splits
C2_Witness ==
    /\ split.op = "prepare_ranking_data" /\ split.done
    /\ split.result.X_train # <<>> /\ split.result.X_test # <<>>
    /\ \E i \in 1..Len(split.query_ids) - 1 : split.query_ids[i] > split.query_ids[i + 1]
    /\ Len(split.result.X_test) >= 2

\* the lengths of the maximal runs of equal values of s, in order
RECURSIVE RunLengths(_)
RunLengths(s) ==
    IF s = <<>> THEN <<>>
    ELSE LET rest == RunLengths(Tail(s))
         IN  IF Len(s) >= 2 /\ s[1] = s[2]
             THEN <<rest[1] + 1>> \o Tail(rest)
             ELSE <<1>> \o rest

GroupsMatchRows(X, y, groups) ==
    LET qid == QidsOf(X)
    IN  /\ Len(RunLengths(qid)) = Cardinality(Range(qid))
        /\ groups = RunLengths(qid)
        /\ SumSeq(groups) = Len(X)
        /\ Len(y) = Len(X)
        /\ \A i \in 1..Len(X) : y[i] = split.labels[X[i]]

\* C3: in each split the rows of one query id are contiguous, the group-size
\* array lists the sizes of those runs in row order, and the group sizes sum
\* to the split's row count.
C3_GroupsContiguous ==
    (split.op = "prepare_ranking_data" /\ split.done) =>
        /\ GroupsMatchRows(split.result.X_train, split.result.y_train,
                           split.result.train_groups)
        /\ GroupsMatchRows(split.result.X_test, split.result.y_test,
                           split.result.test_groups)

\* a train split of two groups of different sizes, beside a non-empty test split
C3_Witness ==
    /\ split.op = "prepare_ranking_data" /\ split.done
    /\ Len(split.result.train_groups) = 2
    /\ split.result.train_groups[1] < split.result.train_groups[2]
    /\ split.result.test_groups # <<>>
    /\ \E i \in 1..Len(split.query_ids) - 1 : split.query_ids[i] > split.query_ids[i + 1]

\* C4: when the group sizes handed to the batch trainer do not sum to the
\* number of rows, the call raises instead of returning metrics.
C4_MisalignedGroupsRaise ==
    (metric.op = "evaluate" /\ metric.done /\ trainer.model # None
        /\ SumSeq(metric.groups) # Len(metric.y_true))
    => metric.raised # None

\* C5: for every query group, every vector of predicted scores and every k
\* in {3,5,10,20}, NDCG@k lies in [0,1].
C5_NdcgInUnitInterval ==
    (metric.op = "_calculate_ndcg_at_k" /\ metric.done) =>
        \A k \in EvalKs : metric.ndcg[k] >= 0 /\ metric.ndcg[k] <= Scale

\* a group larger than k whose NDCG@3 is strictly inside (0,1) and differs from NDCG@5
C5_Witness ==
    /\ metric.op = "_calculate_ndcg_at_k" /\ metric.done
    /\ Len(metric.y_true) = 4
    /\ metric.ndcg[3] > 0 /\ metric.ndcg[3] < Scale
    /\ metric.ndcg[3] # metric.ndcg[5]

\* the labels of the top-k rows in the order the call ranked them
TopKLabels(k) ==
    [i \in 1..Min(k, Len(metric.y_true)) |-> metric.y_true[metric.orders[1][i]]]

\* the top-k labels in descending order
IdealTopKLabels(k) ==
    [i \in 1..Min(k, Len(metric.y_true)) |-> SortDescending(metric.y_true)[i]]

AllLabelsEqual == \A i, j \in DOMAIN metric.y_true : metric.y_true[i] = metric.y_true[j]

\* C6 as stated: NDCG@k = 1 exactly when the top-k labels by predicted score
\* are the ideal top-k labels; a group whose labels are all equal has NDCG@k = 1.
C6_NdcgOneIffIdealOrder ==
    (metric.op = "_calculate_ndcg_at_k" /\ metric.done) =>
        \A k \in EvalKs :
            /\ metric.ndcg[k] = Scale <=> TopKLabels(k) = IdealTopKLabels(k)
            /\ AllLabelsEqual => metric.ndcg[k] = Scale

\* C6 amended: NDCG@k = 1 exactly when some label is positive (IDCG > 0) and
\* the top-k labels by predicted score are the ideal top-k labels; a group
\* whose labels are all 0 (or that is empty) has NDCG@k = 0, and a group whose
\* labels are all equal and positive has NDCG@k = 1.
C6_NdcgOneIffIdealOrderAndPositive ==
    (metric.op = "_calculate_ndcg_at_k" /\ metric.done) =>
        LET positive == \E i \in DOMAIN metric.y_true : metric.y_true[i] > 0
        IN  \A k \in EvalKs :
                /\ metric.ndcg[k] = Scale
                      <=> (positive /\ TopKLabels(k) = IdealTopKLabels(k))
                /\ ~positive => metric.ndcg[k] = 0
                /\ (AllLabelsEqual /\ positive) => metric.ndcg[k] = Scale

\* a group of four rows with different labels that the scores rank ideally in
\* the top 3, and a group of equal positive labels
C6_Witness ==
    /\ metric.op = "_calculate_ndcg_at_k" /\ metric.done
    /\ Len(metric.y_true) = 4
    /\ \/ /\ ~AllLabelsEqual
          /\ metric.ndcg[3] = Scale
          /\ \E i, j \in DOMAIN metric.y_pred : metric.y_pred[i] # metric.y_pred[j]
       \/ /\ AllLabelsEqual /\ metric.y_true[1] > 0 /\ metric.ndcg[3] = Scale

\* the groups of the call that hold a relevant row
EligibleGroups ==
    {g \in 1..Len(metric.groups) :
        \E i \in DOMAIN GroupSlice(metric.y_true, metric.groups, g) :
            GroupSlice(metric.y_true, metric.groups, g)[i] >= RelevantLabel}

\* the mean, over the relevant ranks of group g, of the precision at that rank
AveragePrecision(g) ==
    LET labels == GroupSlice(metric.y_true, metric.groups, g)
        order == metric.orders[g]
        relevant == {r \in 1..Len(order) : labels[order[r]] >= RelevantLabel}
        precision == [r \in relevant |->
                         (Cardinality({q \in relevant : q <= r}) * Scale) \div r]
    IN  SumOver(relevant, precision) \div Cardinality(relevant)

\* C7: a group with no row of label >= 2 is skipped without shifting the rows
\* of later groups, MAP is 0 when every group is skipped, and otherwise MAP is
\* the mean over the remaining groups of the mean precision at each relevant rank.
C7_MapOverEligibleGroups ==
    (metric.op = "_calculate_map" /\ metric.done) =>
        /\ \A g \in EligibleGroups :
              metric.orders[g] \in DescendingOrders(GroupSlice(metric.y_pred, metric.groups, g))
        /\ metric.map =
              IF EligibleGroups = {} THEN 0
              ELSE SumOver(EligibleGroups, [g \in EligibleGroups |-> AveragePrecision(g)])
                       \div Cardinality(EligibleGroups)

\* a skipped group between two eligible groups, the last with its relevant row
\* not ranked first
C7_Witness ==
    /\ metric.op = "_calculate_map" /\ metric.done
    /\ Len(metric.groups) = 3
    /\ SumSeq(metric.groups) = Len(metric.y_true)
    /\ EligibleGroups = {1, 3}
    /\ metric.groups[3] = 2
    /\ metric.map > 0 /\ metric.map < Scale

\* C8: every call of train whose library calls succeed, on a predictor of
\* either backend, returns a result holding the model, the metrics and the
\* feature importance, with MLflow logging enabled or not.
C8_TrainReturnsResult ==
    (call.op = "train" /\ trainer.model_type \in {"xgboost", "lightgbm"}
        /\ call.library = "none")
    => /\ call.raised = None
       /\ {"model", "metrics", "feature_importance"} \subseteq call.result.keys

\* C9: predict on a predictor whose model is None raises ValueError before it
\* touches the input frame and leaves the predictor unchanged.
C9_PredictUntrainedRaises ==
    [][(call.op = "idle" /\ call'.op = "predict" /\ trainer.model = None)
          => /\ call'.raised = "ValueError"
             /\ call'.columns_out = call'.columns_in
             /\ trainer' = trainer]_vars

\* predict raised on a predictor that a failed train call left with feature
\* names and a fitted scaler but no model, for a frame holding both sources of
\* an interaction feature
C9_Witness ==
    /\ call.op = "predict" /\ call.raised = "ValueError"
    /\ trainer.model = None /\ trainer.feature_names # NoFeatureNames
    /\ trainer.scaler = "fitted"
    /\ call.columns_in = {"content_quality_score", "total_backlinks"}

\* C10: handle_imbalanced_data returns a sub-sequence of the input rows in
\* their original order that holds every row of label >= 2 and at most
\* floor(n_high / target_ratio) rows of label < 2, features, labels and query
\* ids staying row-aligned; when the low-relevance count does not exceed the
\* target the input comes back unchanged.
C10_DownsampleKeepsOrder ==
    (balance.op = "handle_imbalanced_data" /\ balance.done)
    => LET r == balance.result
           rows == r.features      \* the feature of a row is its input position
           n_high == Cardinality(HighRanking(balance.labels))
           n_low == Cardinality(LowRanking(balance.labels))
           n_low_target == (n_high * 100) \div balance.target_ratio
       IN  /\ \A j \in 1..(Len(rows) - 1) : rows[j] < rows[j + 1]
           /\ HighRanking(balance.labels) \subseteq Range(rows)
           /\ Cardinality(Range(rows) \cap LowRanking(balance.labels)) <= n_low_target
           /\ Len(r.labels) = Len(rows) /\ Len(r.query_ids) = Len(rows)
           /\ \A j \in 1..Len(rows) :
                 /\ r.labels[j] = balance.labels[rows[j]]
                 /\ r.query_ids[j] = balance.query_ids[rows[j]]
           /\ n_low <= n_low_target
                 => /\ r.features = balance.features
                    /\ r.labels = balance.labels
                    /\ r.query_ids = balance.query_ids

\* the lowest validation loss of the epochs before epoch i of the call
\* (epochs are counted from 1 here), Inf when there is none
BestBefore(i) ==
    IF i = 1 THEN Inf
    ELSE LET before == {session.log[j].val_loss : j \in 1..(i - 1)}
         IN  CHOOSE m \in before : \A l \in before : m <= l

NotImproved(i) == session.log[i].val_loss >= BestBefore(i)

\* the consecutive epochs up to and including i that did not improve
Consecutive(i) ==
    Cardinality({j \in 1..i : \A l \in j..i : NotImproved(l)})

Exhausted(i) == NotImproved(i) /\ Consecutive(i) >= session.early_stopping_patience

\* C11: a train_realtime call that returns has run at most `epochs` epochs;
\* it stops right after the first epoch at which the run of consecutive
\* epochs without strict improvement reaches early_stopping_patience, and
\* when it stops before `epochs` that epoch is the reason.
C11_StopsAtPatienceOrEpochs ==
    session.op = "train_realtime"
    => LET n == Len(session.log)
       IN  /\ n <= session.epochs
           /\ \A i \in 1..n : Exhausted(i) => i = n /\ session.pc \in {"cleanup", "returned"}
           /\ session.pc = "returned" /\ n < session.epochs => n >= 1 /\ Exhausted(n)

\* stopped by patience 2 with an epoch to spare, after an improvement that
\* had reset the count
C11_Witness ==
    /\ session.op = "train_realtime" /\ session.pc = "returned"
    /\ session.early_stopping_patience = 2
    /\ Len(session.log) = 3 /\ session.epochs = 4
    /\ ~NotImproved(1) /\ NotImproved(2) /\ NotImproved(3)

\* the first epoch of the call with the lowest validation loss
BestEpoch ==
    CHOOSE i \in 1..Len(session.log) :
        /\ \A j \in 1..Len(session.log) : session.log[i].val_loss <= session.log[j].val_loss
        /\ \A j \in 1..(i - 1) : session.log[j].val_loss > session.log[i].val_loss

\* C12: when train_realtime returns after at least one epoch, the checkpoint
\* file holds the parameters and the optimizer state of the first epoch with
\* the lowest validation loss of the call, and best_val_loss is that loss.
C12_BestCheckpointRetained ==
    (session.op = "train_realtime" /\ session.pc = "returned" /\ Len(session.log) >= 1)
    => /\ ranker.checkpoint.file = "complete"
       /\ ranker.checkpoint.model_state_dict = session.log[BestEpoch].params
       /\ ranker.checkpoint.optimizer_state_dict = session.log[BestEpoch].optimizer
       /\ session.result.best_val_loss = session.log[BestEpoch].val_loss

\* the lowest loss came at the second epoch, was equalled at the third and
\* followed by a worse one; the ranker had a checkpoint from an earlier call
C12_Witness ==
    /\ session.op = "train_realtime" /\ session.pc = "returned"
    /\ Len(session.log) = 4
    /\ session.log[1].val_loss = 2 /\ session.log[2].val_loss = 1
    /\ session.log[3].val_loss = 1 /\ session.log[4].val_loss = 2
    /\ session.before.params > 0
    /\ ranker.params > ranker.checkpoint.model_state_dict

\* C13: the first gradient step of incremental_update starts from the
\* parameters and the optimizer state the ranker had right before the call,
\* and every step of the call adds to that optimizer state.
C13_IncrementalContinues ==
    (session.op = "incremental_update" /\ session.steps >= 1)
    => /\ session.first_step_from.params = session.before.params
       /\ session.first_step_from.optimizer = session.before.optimizer
       /\ ranker.optimizer.steps = session.before.optimizer.steps + session.steps

\* an update of two epochs returned on a ranker trained before
C13_Witness ==
    /\ session.op = "incremental_update" /\ session.pc = "returned"
    /\ session.before.optimizer.steps > 0 /\ session.before.params > 0
    /\ session.epochs = 2
    /\ ranker.optimizer.steps > session.before.optimizer.steps + 1

CallEvents == SubSeq(ranker.metric_queue, session.before.queued + 1, Len(ranker.metric_queue))

Emitted(event) == Cardinality({i \in DOMAIN CallEvents : CallEvents[i] = event})

\* the epochs of the call that have run mini-batch b (epoch and batch indices from 0)
RunsOfBatch(b) ==
    (IF b < session.n_batches THEN Len(session.log) ELSE 0)
    + (IF b < session.batch_idx THEN 1 ELSE 0)

C16_FailedPushDoesNotInterrupt ==
    [][/\ session'.raised # "WebSocketException"
       /\ ranker'.subscriber.failures > ranker.subscriber.failures
             => /\ Len(ranker'.metric_queue) = Len(ranker.metric_queue) + 1
                /\ session'.steps >= session.steps
                /\ session'.pc = "raised" => session'.raised = "OSError"]_vars

\* a training call returned after pushes that failed and pushes that did not
C16_Witness ==
    /\ session.op = "train_realtime" /\ session.pc = "returned"
    /\ Len(session.log) >= 2
    /\ ranker.subscriber.failures >= 2
    /\ ranker.subscriber.attempts > ranker.subscriber.failures
    /\ Len(CallEvents) = ranker.subscriber.attempts

\* C17: once a push has failed no further push is attempted.
C17_QueueOnlyAfterFailure ==
    [][ranker.subscriber.failures > 0
          => ranker'.subscriber.attempts = ranker.subscriber.attempts]_vars

\* the first call on the instance fitted it and the last call is a transform
FitThenTransform ==
    /\ engineer.pc = "done"
    /\ engineer.first.fit
    /\ engineer.first.raised = None
    /\ ~engineer.last.fit

\* C18: after a fit-mode call that returned, a transform-mode call on a frame
\* with the same source columns returns a frame with the same columns in the
\* same order, whatever the values of the two frames' rows.
C18_SameColumnsInBothModes ==
    (FitThenTransform /\ engineer.last.df.columns = engineer.first.df.columns)
        => /\ engineer.last.raised = None
           /\ engineer.last.out.columns = engineer.first.out.columns

\* C19: a transform-mode call on the very frame the instance was fitted on returns
\* the columns and values the fit-mode call returned, leaves the scaler's statistics
\* and the vectorizer's vocabulary as the fit left them, and neither call changes
\* the caller's frame.
C19_FitThenTransformRoundTrip ==
    (FitThenTransform /\ engineer.last.df = engineer.first.df)
        => /\ engineer.last.raised = None
           /\ engineer.last.out = engineer.first.out
           /\ engineer.scaler = engineer.before.scaler
           /\ engineer.tfidf_vectorizer = engineer.before.tfidf_vectorizer
           /\ engineer.first.caller = engineer.first.df
           /\ engineer.last.caller = engineer.last.df

\* a round trip on a frame with a skewed column, a missing value and a title,
\* whose result is scaled and holds the log, ratio and tf-idf columns
C19_Witness ==
    /\ FitThenTransform
    /\ engineer.last.df = engineer.first.df
    /\ engineer.scaler.fitted
    /\ engineer.tfidf_vectorizer.vocabulary = <<"best", "seo">>
    /\ {"total_backlinks_log", "dofollow_ratio", "tfidf_1"}
           \subseteq Range(engineer.last.out.columns)
    /\ engineer.last.df.data["dofollow_links"][MaxFrameRows] = Float(0, 0)
    /\ engineer.last.out = engineer.first.out

\* the guard and the default of every ratio feature; total is the sum of the columns
\* whose value the guard tests
RatioGuards ==
    {[ratio |-> "image_alt_ratio", total |-> {"image_count"}, default |-> Float(1, 1)],
     [ratio |-> "dofollow_ratio", total |-> {"total_backlinks"}, default |-> Float(0, 1)],
     [ratio |-> "high_authority_ratio", total |-> {"total_backlinks"},
      default |-> Float(0, 1)],
     [ratio |-> "authority_concentration", total |-> {"total_backlinks"},
      default |-> Float(0, 1)],
     [ratio |-> "exact_match_anchor_ratio", total |-> Range(anchor_cols),
      default |-> Float(0, 1)],
     [ratio |-> "partial_match_anchor_ratio", total |-> Range(anchor_cols),
      default |-> Float(0, 1)],
     [ratio |-> "branded_anchor_ratio", total |-> Range(anchor_cols),
      default |-> Float(0, 1)],
     [ratio |-> "generic_anchor_ratio", total |-> Range(anchor_cols),
      default |-> Float(0, 1)],
     [ratio |-> "content_to_code_ratio", total |-> {"javascript_size", "css_size"},
      default |-> Float(100, 1)]}

\* the columns of the guard are all 0 in row i of the frame
ZeroDenominator(df, total, i) == \A c \in total : df.data[c][i] = Float(0, 1)

\* C20: in every row whose denominator is zero a ratio feature has exactly its
\* default (1.0 for image_alt_ratio, 100 for content_to_code_ratio, 0.0 for the
\* others), which is neither nan nor infinite; _create_ratio_features never raises.
C20_ZeroDenominatorGivesDefault ==
    (engineer.pc = "done" /\ engineer.last.called /\ ~engineer.first.called)
        => /\ engineer.last.raised = None
           /\ \A g \in RatioGuards :
                 g.ratio \in Range(engineer.last.out.columns)
                     => \A i \in 1..Len(engineer.last.out.data[g.ratio]) :
                           ZeroDenominator(engineer.last.df, g.total, i)
                               => engineer.last.out.data[g.ratio][i] = g.default

\* content_length 2 without any code: the ratio is the ceiling
C20_Witness ==
    /\ engineer.pc = "done"
    /\ ~engineer.first.called
    /\ "content_to_code_ratio" \in Range(engineer.last.out.columns)
    /\ engineer.last.df.data["content_length"] = <<Float(2, 1)>>
    /\ engineer.last.df.data["javascript_size"] = <<Float(0, 1)>>
    /\ engineer.last.df.data["css_size"] = <<Float(0, 1)>>
    /\ engineer.last.out.data["content_to_code_ratio"] = <<Float(Ceiling, 1)>>

\* C21: an inverse feature has the tiers of a normal feature mirrored: a value
\* at or below min_excellent is Excellent with score 1.0, a value above
\* max_excellent and at most max_good is Good, and a value above max_good is
\* Poor with a score of at least 0.1 that does not grow with the value.
C21_InverseMirrorsNormal ==
    (gate.op = "evaluate_feature" /\ gate.done
        /\ gate.feature_name \in DOMAIN get_all_thresholds
        /\ get_all_thresholds[gate.feature_name].inverse) =>
        LET config == get_all_thresholds[gate.feature_name]
            value == gate.value
            below == evaluate_feature(gate.feature_name, value - 1, get_all_thresholds)
        IN  /\ gate.scored.raised = None
            /\ value <= config.min_excellent
                  => gate.scored.quality = "excellent" /\ gate.scored.score = Scale
            /\ (value > config.max_excellent /\ value <= config.max_good)
                  => gate.scored.quality = "good"
            /\ value > config.max_good
                  => /\ gate.scored.quality = "poor"
                     /\ gate.scored.score >= Scale \div 10
                     /\ gate.scored.score <= below.score

\* C22: evaluate_feature on a value exactly at min_excellent gives the tier
\* Excellent with score exactly 1.0, for every non-inverse and every inverse
\* feature of the threshold table, a single-point excellent band included.
C22_MinExcellentIsExcellent ==
    (gate.op = "evaluate_feature" /\ gate.done
        /\ gate.feature_name \in DOMAIN get_all_thresholds
        /\ gate.value = get_all_thresholds[gate.feature_name].min_excellent) =>
        gate.scored = [quality |-> "excellent", score |-> Scale, raised |-> None]

\* the boundary of a feature whose excellent band is a single point (h1_count
\* is not inverse, crawl_errors_count is) has been evaluated
C22_Witness ==
    /\ gate.op = "evaluate_feature" /\ gate.done
    /\ gate.feature_name \in {"h1_count", "crawl_errors_count"}
    /\ get_all_thresholds[gate.feature_name].min_excellent
          = get_all_thresholds[gate.feature_name].max_excellent
    /\ gate.value = get_all_thresholds[gate.feature_name].min_excellent
    /\ gate.scored.quality = "excellent"

\* C23: evaluate_feature on a name the threshold table does not hold returns
\* (Fair, 0.5) for every value and raises nothing, and calculate_overall_quality
\* leaves such a feature out of the weighted sum, the category scores and the
\* good, poor and total counts: the report is that of the record without it.
C23_UnknownFeatureIsFairAndLeftOut ==
    /\ (gate.op = "evaluate_feature" /\ gate.done /\ gate.feature_name = UnknownFeature)
          => gate.scored = [quality |-> "fair", score |-> Scale \div 2, raised |-> None]
    /\ (gate.op = "calculate_overall_quality" /\ gate.done)
          => LET in_table == DOMAIN gate.features \cap DOMAIN get_all_thresholds
                 without == [f \in in_table |-> gate.features[f]]
             IN  /\ gate.report.raised = None
                 /\ DOMAIN gate.report.feature_scores = in_table
                 /\ gate.report.total_features = Cardinality(in_table)
                 /\ gate.report.good_features + gate.report.poor_features
                       <= Cardinality(in_table)
                 /\ DOMAIN gate.report.category_scores
                       = {get_all_thresholds[f].category : f \in in_table}
                 /\ gate.report = calculate_overall_quality(without, get_all_thresholds)

\* a record with one feature of the table and one unknown feature has been rated
C23_Witness ==
    /\ gate.op = "calculate_overall_quality" /\ gate.done
    /\ UnknownFeature \in DOMAIN gate.features
    /\ Cardinality(DOMAIN gate.features) = 2
    /\ gate.report.total_features = 1
    /\ gate.report.overall_score > 0

\* C24: calculate_overall_quality returns the overall score
\* sum(score * weight) / sum(weight) * 100 over the features that are in the
\* record and in the threshold table (0 when there is none), and the overall
\* tier is Excellent iff score >= 80, Good iff 70 <= score < 80, Fair iff
\* 50 <= score < 70 and Poor otherwise.
C24_WeightedOverallScoreAndTier ==
    (gate.op = "calculate_overall_quality" /\ gate.done) =>
        LET in_table == DOMAIN gate.features \cap DOMAIN get_all_thresholds
            score == [f \in in_table |->
                         evaluate_feature(f, gate.features[f], get_all_thresholds).score]
            weight == [f \in in_table |-> get_all_thresholds[f].weight]
            overall == gate.report.overall_score
            tier == gate.report.overall_quality
        IN  /\ gate.report.raised = None
            /\ in_table = {} => overall = 0
            /\ in_table # {} =>
                  overall = FloorDiv(100 * SumOver(in_table, [f \in in_table |->
                                                      score[f] * weight[f]]),
                                     SumOver(in_table, weight))
            /\ tier = "excellent" <=> overall >= 80 * Scale
            /\ tier = "good" <=> (overall >= 70 * Scale /\ overall < 80 * Scale)
            /\ tier = "fair" <=> (overall >= 50 * Scale /\ overall < 70 * Scale)
            /\ tier = "poor" <=> overall < 50 * Scale

\* two features of the table with different weights and different scores have
\* been rated, and the overall score lies exactly on a bucket bound
C24_Witness ==
    /\ gate.op = "calculate_overall_quality" /\ gate.done
    /\ \E f, g \in DOMAIN gate.report.feature_scores :
          /\ get_all_thresholds[f].weight # get_all_thresholds[g].weight
          /\ gate.report.feature_scores[f].score # gate.report.feature_scores[g].score
    /\ gate.report.overall_score \in {50 * Scale, 70 * Scale, 80 * Scale}

\* C25: every failure of a command-line script, the training script and the
\* analysis script alike, is reported as a JSON error object on standard
\* output together with a non-zero exit status, and a run that prints an
\* error object never exits with status 0.
C25_FailureIsErrorObjectAndNonZeroExit ==
    script.pc = "exited" =>
        LET failed == ~script.argv_ok \/ script.raises # None
            error_printed == \E i \in DOMAIN script.stdout : script.stdout[i].error
        IN  /\ failed => (error_printed /\ script.status # 0)
            /\ error_printed => script.status # 0

\* C26: a failed model save leaves no partial or corrupt artifact on disk:
\* after a save that failed part-way the target path holds no file or a
\* complete artifact saved before, never a truncated one.
C26_NoPartialArtifact ==
    (script.pc = "exited" /\ script.name = "train_seo_model") =>
        \/ script.artifact = "missing"
        \/ script.artifact = "complete"

\* the pairs of rows of the batch with the same query id and different labels
InformativePairs ==
    {p \in (DOMAIN criterion.labels) \X (DOMAIN criterion.labels) :
        /\ p[1] < p[2]
        /\ criterion.query_ids[p[1]] = criterion.query_ids[p[2]]
        /\ criterion.labels[p[1]] # criterion.labels[p[2]]}

\* C27: in the pairwise ranking loss a query group whose labels are all equal
\* adds nothing to the loss and nothing to the pair count: exactly the pairs
\* of same-query rows with different labels are counted, once each, and a
\* batch with no such pair has total loss 0.
C27_OnlyInformativePairsCount ==
    criterion.pc = "returned" =>
        LET loss == criterion.result.loss
            TermsOf(qid) == {k \in DOMAIN loss : criterion.query_ids[loss[k].i] = qid}
            AllEqual(qid) ==
                \A a, b \in DOMAIN criterion.labels :
                    (criterion.query_ids[a] = qid /\ criterion.query_ids[b] = qid)
                        => criterion.labels[a] = criterion.labels[b]
        IN  /\ criterion.result.count = Cardinality(InformativePairs)
            /\ Len(loss) = criterion.result.count
            /\ {<<loss[k].i, loss[k].j>> : k \in DOMAIN loss} = InformativePairs
            /\ \A qid \in Range(criterion.query_ids) : AllEqual(qid) => TermsOf(qid) = {}
            /\ InformativePairs = {} =>
                  /\ loss = <<>>
                  /\ criterion.result.count = 0
                  /\ criterion.result.returns = "float"

\* a batch with a group of two rows of equal labels and a group of two rows
\* of different labels: the second group's pair is the only one counted
C27_Witness ==
    /\ criterion.pc = "returned"
    /\ criterion.query_ids = <<1, 1, 2, 2>>
    /\ criterion.labels = <<1, 1, 0, 1>>
    /\ criterion.result.count = 1
    /\ criterion.result.loss[1].i = 3 /\ criterion.result.loss[1].j = 4
    /\ ~criterion.result.loss[1].label_diff_positive

\* C28: the history and total_epochs that train_realtime returns describe
\* that call only: total_epochs is the number of epochs the call executed,
\* also on a ranker trained before or loaded from a checkpoint, and
\* incremental_update and online_update leave the history as it is.
C28_HistoryOfThisCallOnly ==
    [][/\ (session'.op = "train_realtime" /\ session'.pc = "returned")
            => /\ session'.result.total_epochs = Len(session'.log)
               /\ Len(ranker'.history) = Len(session'.log)
       /\ session'.op \in {"incremental_update", "online_update"}
            => ranker'.history = ranker.history]_vars

\* C29: a mini-batch without an informative pair does not abort training:
\* train_realtime and incremental_update do the backward pass and the
\* optimizer step of every batch and go on to the next batch or to the end of
\* the epoch.
C29_EveryBatchIsStepped ==
    [][session.pc = "batch"
          => /\ ranker'.optimizer.steps = ranker.optimizer.steps + 1
             /\ session'.pc \in {"batch", "epoch_end"}
             /\ session'.raised = None]_vars

\* the events returned by finished get_live_metrics calls, those taken by the
\* call in progress and those still on the queue, in this order
LiveEvents(c, r) == c.returned \o c.metrics \o r.metric_queue

\* C30: with one consumer calling get_live_metrics while training emits
\* events, every event put on the metric queue is returned exactly once and
\* in the order of emission, and get_live_metrics never blocks: a step of the
\* consumer moves events from the queue to its result without losing,
\* repeating or reordering any, a step of training only appends events, and
\* the consumer never waits on the queue.
C30_LiveMetricsOnceInOrder ==
    [][/\ consumer' # consumer
            => LiveEvents(consumer', ranker') = LiveEvents(consumer, ranker)
       /\ consumer' = consumer
            => /\ Len(LiveEvents(consumer', ranker')) >= Len(LiveEvents(consumer, ranker))
               /\ SubSeq(LiveEvents(consumer', ranker'), 1,
                         Len(LiveEvents(consumer, ranker)))
                     = LiveEvents(consumer, ranker)
       /\ consumer'.pc = "idle"
            => Len(consumer'.returned) >= Len(consumer.returned)
       /\ consumer'.pc # "blocked"]_vars

\* a get_live_metrics call has returned two events while training went on,
\* and a later event waits on the queue for the next call
C30_Witness ==
    /\ consumer.pc = "idle"
    /\ Len(consumer.returned) >= 2
    /\ ranker.metric_queue # <<>>
    /\ session.pc \in {"batch", "epoch_end"}

====
